---------------------------- MODULE Spec2Model ----------------------------
(***************************************************************************)
(* Verification model of the karaoke alignment and scoring core:           *)
(*   src/python/preprocess_full.py  align_with_dtw, fit_piecewise_linear,  *)
(*                                  warp_pitch_to_karaoke,                 *)
(*                                  create_note_bins, build_reference_json *)
(*   src/python/refine_results.py   extract_phrase_pitch,                  *)
(*                                  align_phrase_dtw,                      *)
(*                                  calculate_phrase_metrics,              *)
(*                                  refine_results                         *)
(*                                                                         *)
(* Every function of the core is pure, so each one is an operator and each *)
(* specification draws the function's inputs in its initial states and     *)
(* applies the function in an action.                                      *)
(*                                                                         *)
(* Numbers.  Python floats are modelled by integers and exact rationals:   *)
(*   - times are integers in a fixed unit (stated per component);          *)
(*   - pitches are integers in Hz;                                         *)
(*   - a rational is a pair <<num, den>> with den > 0, kept in lowest      *)
(*     terms.                                                              *)
(* Sequences are 1-based: Python's x[i] is x[i + 1] here.                  *)
(***************************************************************************)
EXTENDS Integers, Sequences, FiniteSets, TLC

VARIABLES
    pc,                  \* position of the run inside the specification checked
    alignIn,             \* arguments of align_with_dtw
    alignOut,            \* its return value (tk_aligned, tref_aligned, quality)
    fitIn,               \* arguments of fit_piecewise_linear
    fitOut,              \* its return value: the segment list
    fitLocals,           \* its locals at the return
    warpIn,              \* the other arguments of warp_pitch_to_karaoke
    warpOut,             \* its return value, with the locals the claims name
    binsIn,              \* arguments of create_note_bins
    note_bins,           \* its return value
    phraseIn,            \* arguments of calculate_phrase_metrics
    phraseLocals,        \* its locals after the call
    metrics,             \* its return value
    songIn,              \* what build_reference_json has at its line 714
    reference,           \* the reference document
    performance,         \* the performance document
    refined,             \* the return value of refine_results
    keyIn,               \* the build pipeline and what key estimation meets
    keyOut,              \* the outcome of the build's key step
    tasks,               \* the phrase-scoring calls in progress, one per phrase
    onsetIn,             \* the onsets detect_phrases has at its line 550
    phrasesOut           \* its return value

alignVars == <<alignIn, alignOut>>

warpVars == <<fitIn, fitOut, fitLocals, warpIn, warpOut>>

binsVars == <<binsIn, note_bins>>

scoreVars == <<phraseIn, phraseLocals, metrics>>

refineVars == <<songIn, reference, performance, refined>>

keyVars == <<keyIn, keyOut>>

onsetVars == <<onsetIn, phrasesOut>>

poolVars == <<tasks>>

vars == <<pc, alignVars, warpVars, binsVars, scoreVars, refineVars, keyVars,
          poolVars, onsetVars>>

None == <<>>

-----------------------------------------------------------------------------
(* Arithmetic helpers                                                      *)

Abs(x) == IF x < 0 THEN -x ELSE x

Min2(a, b) == IF a <= b THEN a ELSE b

Max2(a, b) == IF a >= b THEN a ELSE b

\* s itself, as an explicit tuple: its elements are evaluated once here
\* rather than at every later use
Tuple(s) == s \o <<>>

RECURSIVE SumSeq(_)
SumSeq(s) == IF s = <<>> THEN 0 ELSE Head(s) + SumSeq(Tail(s))

RECURSIVE Gcd(_, _)
Gcd(a, b) == IF b = 0 THEN a ELSE Gcd(b, a % b)

\* x[::step] of numpy: the elements at 0-based positions 0, step, 2*step, ...
Stride(x, step) ==
    [i \in 1..((Len(x) + step - 1) \div step) |-> x[(i - 1) * step + 1]]

\* the positions i..n that are in kept, in increasing order (x[mask] is x at
\* these positions, kept being the positions where mask holds)
RECURSIVE SelectIdx(_, _, _)
SelectIdx(n, kept, i) ==
    IF i > n THEN <<>>
    ELSE IF i = n THEN (IF i \in kept THEN <<i>> ELSE <<>>)
    ELSE LET mid == (i + n) \div 2
         IN  SelectIdx(mid, kept, i) \o SelectIdx(n, kept, mid + 1)

-----------------------------------------------------------------------------
(* numpy.interp(x, xp, fp): piecewise-linear interpolation, clamped to     *)
(* fp[first] / fp[last] outside [xp[first], xp[last]].  Inside, numpy      *)
(* takes the last j with xp[j] <= x; it returns fp[j] when x = xp[j] or j  *)
(* is the last point, and fp[j] + slope * (x - xp[j]) otherwise.  The      *)
(* result is rounded down to the time unit.                                *)

LastLeq(xp, x) == CHOOSE j \in 1..Len(xp) :
    /\ xp[j] <= x
    /\ \A k \in (j + 1)..Len(xp) : xp[k] > x

NpInterp(x, xp, fp) ==
    LET n == Len(xp) IN
    IF x > xp[n] THEN fp[n]
    ELSE IF x < xp[1] THEN fp[1]
    ELSE LET j == LastLeq(xp, x) IN
         IF j = n \/ xp[j] = x THEN fp[j]
         ELSE fp[j] + ((fp[j + 1] - fp[j]) * (x - xp[j])) \div (xp[j + 1] - xp[j])

-----------------------------------------------------------------------------
(* dtaidistance.dtw as the two callers use it.                             *)
(*                                                                         *)
(* warping_paths fills an (r+1) x (c+1) matrix, all cells infinite but     *)
(* [0,0] = 0.  Row i (0-based) fills the columns j of the band             *)
(*    max(0, i - max(0, r-c) - window + 1) <= j                            *)
(*                                   < min(c, i + max(0, c-r) + window)    *)
(* with (s1[i] - s2[j])^2 + min(diagonal, upper, left).  window = None     *)
(* means max(r, c).  The distance is the square root of cell [r, c].       *)
(* best_path walks back from [r, c] while i > 0 and j > 0, taking the      *)
(* first minimum of (diagonal, upper, left).                               *)

Inf == 1000000

DtwCell(m, s1, s2, i, j) ==
    LET d    == (s1[i] - s2[j]) * (s1[i] - s2[j])
        best == Min2(m[i - 1][j - 1], Min2(m[i - 1][j], m[i][j - 1]))
    IN  IF best >= Inf THEN Inf ELSE d + best

InBand(r, c, window, i, j) ==
    \* i, j are 1-based here: the 0-based row is i - 1, the column j - 1
    /\ j - 1 >= Max2(0, (i - 1) - Max2(0, r - c) - window + 1)
    /\ j - 1 < Min2(c, (i - 1) + Max2(0, c - r) + window)

RECURSIVE DtwFill(_, _, _, _, _)
DtwFill(m, s1, s2, window, k) ==
    LET r == Len(s1)
        c == Len(s2)
    IN  IF k >= r * c THEN m
        ELSE LET i == (k \div c) + 1
                 j == (k % c) + 1
             IN  IF InBand(r, c, window, i, j)
                 THEN DtwFill([m EXCEPT ![i][j] = DtwCell(m, s1, s2, i, j)],
                              s1, s2, window, k + 1)
                 ELSE DtwFill(m, s1, s2, window, k + 1)

WarpingPaths(s1, s2, window) ==
    LET m0 == [i \in 0..Len(s1) |->
                 [j \in 0..Len(s2) |-> IF i = 0 /\ j = 0 THEN 0 ELSE Inf]]
    IN  DtwFill(m0, s1, s2, window, 0)

\* the pairs are appended from the end of the path backwards
RECURSIVE BestPathFrom(_, _, _)
BestPathFrom(m, i, j) ==
    IF i = 0 \/ j = 0 THEN <<>>
    ELSE LET dg == m[i - 1][j - 1]
             up == m[i - 1][j]
             lf == m[i][j - 1]
         IN  IF dg <= up /\ dg <= lf
             THEN Append(BestPathFrom(m, i - 1, j - 1), <<i, j>>)
             ELSE IF up <= lf
             THEN Append(BestPathFrom(m, i - 1, j), <<i, j>>)
             ELSE Append(BestPathFrom(m, i, j - 1), <<i, j>>)

\* dtw.warping_path(s1, s2, window=window): a sequence of index pairs
WarpingPath(s1, s2, window) ==
    BestPathFrom(WarpingPaths(s1, s2, window), Len(s1), Len(s2))

-----------------------------------------------------------------------------
(* align_with_dtw (preprocess_full.py 167-219).                            *)
(* Times are integers in units of 1/HopTicks of a chroma frame hop.        *)
(* band_width is given in tenths (1 is 0.1) and quality in hundredths.     *)
(* A chroma matrix is a sequence of frames, each frame the vector of its   *)
(* pitch-class energies.                                                   *)

DownsampleFactor == 10

\* chroma.mean(axis=0) of one frame, scaled by the number of pitch classes
\* (the common factor changes no comparison of DTW costs)
ChromaMean(frame) == SumSeq(frame)

\* np.linspace(0, len_ref - 1, len_k)[i] as the rational num / den
LinspaceNum(len_ref, i) == (i - 1) * (len_ref - 1)

LinspaceDen(len_k) == IF len_k = 1 THEN 1 ELSE len_k - 1

\* np.interp(indices, np.arange(len(times_ref)), times_ref)[i]
InterpAtIndex(times_ref, num, den) ==
    LET j    == num \div den          \* 0-based index below the position
        frac == num % den
    IN  IF j + 1 >= Len(times_ref) THEN times_ref[Len(times_ref)]
        ELSE times_ref[j + 1]
             + ((times_ref[j + 2] - times_ref[j + 1]) * frac) \div den

\* mutant of SimilarLength: the test of line 181 with <= for <
SimilarLengthInclusive(len_k, len_ref) ==
    10 * Abs(len_k - len_ref) <= Max2(len_k, len_ref)

SimilarLength(len_k, len_ref) ==
    \* abs(len_k - len_ref) / max(len_k, len_ref) < 0.1
    10 * Abs(len_k - len_ref) < Max2(len_k, len_ref)

AlignLinear(times_k, times_ref) ==
    [tk_aligned   |-> times_k,
     tref_aligned |-> [i \in 1..Len(times_k) |->
                         InterpAtIndex(times_ref,
                                       LinspaceNum(Len(times_ref), i),
                                       LinspaceDen(Len(times_k)))],
     quality      |-> 95,
     branch       |-> "linear"]

AlignDownsampled(chroma_k, chroma_ref, times_k, times_ref, band_width) ==
    LET times_k_down   == Stride(times_k, DownsampleFactor)
        times_ref_down == Stride(times_ref, DownsampleFactor)
        chroma_k_down  == Stride(chroma_k, DownsampleFactor)
        chroma_ref_down == Stride(chroma_ref, DownsampleFactor)
        window == (band_width * Max2(Len(times_k_down), Len(times_ref_down))) \div 10
        chroma_k_mean   == [i \in 1..Len(chroma_k_down) |-> ChromaMean(chroma_k_down[i])]
        chroma_ref_mean == [i \in 1..Len(chroma_ref_down) |-> ChromaMean(chroma_ref_down[i])]
        path == WarpingPath(chroma_k_mean, chroma_ref_mean, window)
        tk_sparse   == [p \in 1..Len(path) |-> times_k_down[path[p][1]]]
        tref_sparse == [p \in 1..Len(path) |-> times_ref_down[path[p][2]]]
    IN  \* line 211 stores the interpolated reference times in tk_aligned and
        \* line 212 stores times_k in tref_aligned
        [tk_aligned   |-> [i \in 1..Len(times_k) |->
                             NpInterp(times_k[i], tk_sparse, tref_sparse)],
         tref_aligned |-> times_k,
         quality      |-> 85,
         branch       |-> "dtw"]

align_with_dtw(chroma_k, chroma_ref, times_k, times_ref, band_width) ==
    IF SimilarLength(Len(times_k), Len(times_ref))
    THEN AlignLinear(times_k, times_ref)
    ELSE AlignDownsampled(chroma_k, chroma_ref, times_k, times_ref, band_width)

-----------------------------------------------------------------------------
(* Exact rationals <<num, den>>, den > 0, in lowest terms                  *)

Rat(n, d) ==
    LET g == Gcd(Abs(n), Abs(d))
        s == IF d < 0 THEN -1 ELSE 1
    IN  IF n = 0 THEN <<0, 1>> ELSE <<(s * n) \div g, (s * d) \div g>>

RInt(n) == <<n, 1>>

\* the sums, products and comparisons cancel common factors before they
\* multiply, which keeps the intermediate integers small
RAdd(p, q) ==
    LET g == Gcd(p[2], q[2])
    IN  Rat(p[1] * (q[2] \div g) + q[1] * (p[2] \div g), (p[2] \div g) * q[2])

RSub(p, q) == RAdd(p, <<-q[1], q[2]>>)

RMul(p, q) ==
    IF p[1] = 0 \/ q[1] = 0 THEN <<0, 1>>
    ELSE LET g1 == Gcd(Abs(p[1]), q[2])
             g2 == Gcd(Abs(q[1]), p[2])
         IN  Rat((p[1] \div g1) * (q[1] \div g2),
                 (p[2] \div g2) * (q[2] \div g1))

RDiv(p, q) ==
    RMul(p, IF q[1] < 0 THEN <<-q[2], -q[1]>> ELSE <<q[2], q[1]>>)

RLt(p, q) ==
    LET g == Gcd(p[2], q[2])
    IN  p[1] * (q[2] \div g) < q[1] * (p[2] \div g)

RLe(p, q) ==
    LET g == Gcd(p[2], q[2])
    IN  p[1] * (q[2] \div g) <= q[1] * (p[2] \div g)

RAbs(p) == <<Abs(p[1]), p[2]>>

RMin(p, q) == IF RLe(p, q) THEN p ELSE q

RFloor(p) == p[1] \div p[2]

RECURSIVE RSumSeq(_)
RSumSeq(s) == IF s = <<>> THEN <<0, 1>> ELSE RAdd(Head(s), RSumSeq(Tail(s)))

-----------------------------------------------------------------------------
(* fit_piecewise_linear (preprocess_full.py 222-289).                      *)
(* Times are integers in ticks of 1/REF_FPS second; slope, intercept and   *)
(* quality are exact rationals (intercept in ticks).                       *)

REF_FPS == 50

\* AlignmentSegment.__init__
AlignmentSegment(tk_start, tk_end, a, b, quality) ==
    [tk_start |-> tk_start, tk_end |-> tk_end, a |-> a, b |-> b,
     quality |-> quality]

\* x[i:j] of Python for 0-based i, j
Slice(x, i, j) == [k \in 1..(j - i) |-> x[i + k]]

\* mutant of PolyFit: the line through the first and the last point shifted
\* by one tick, a fit that is off by the slope
PolyFitShifted(x, y) ==
    LET m == Len(x)
    IN  [a |-> Rat(y[m] - y[1], x[m] - x[1] + 1), b |-> RInt(0)]

\* np.polyfit(x, y, 1): the least-squares line through the points.  When
\* all x are one value c # 0 the system has rank 1 and lstsq, on the columns
\* polyfit has scaled to unit norm, returns its minimum-norm solution, the
\* line with a * c = b = mean(y) / 2.  (For c = 0 polyfit divides 0 by 0;
\* no input of the specifications below has a window of times all 0.)
PolyFit(x, y) ==
    LET m   == Len(x)
        Sx  == SumSeq(x)
        Sy  == SumSeq(y)
        Sxx == SumSeq([i \in 1..m |-> x[i] * x[i]])
        Sxy == SumSeq([i \in 1..m |-> x[i] * y[i]])
        D   == m * Sxx - Sx * Sx
    IN  IF D = 0
        THEN [a |-> Rat(Sy, 2 * m * x[1]), b |-> Rat(Sy, 2 * m)]
        ELSE [a |-> Rat(m * Sxy - Sx * Sy, D),
              b |-> Rat(Sy * Sxx - Sx * Sxy, D)]

\* r2 = 1 - ss_res / (ss_tot + 1e-8).  The 1e-8 only guards the division:
\* when ss_tot = 0 (1e-8 s^2 is 1/40000 tick^2) the fit is exact and r2 = 1;
\* otherwise it changes r2 by less than one part in 10^4 of ss_res / ss_tot
\* and is left out.
RSquared(x, y, a, b) ==
    LET m      == Len(x)
        Sy     == SumSeq(y)
        ss_res == RSumSeq([i \in 1..m |->
                     LET e == RSub(RInt(y[i]), RAdd(RMul(a, RInt(x[i])), b))
                     IN  RMul(e, e)])
        \* sum((y - mean(y))^2) = (m * sum(y^2) - sum(y)^2) / m
        ss_tot == Rat(m * SumSeq([i \in 1..m |-> y[i] * y[i]]) - Sy * Sy, m)
    IN  IF ss_tot[1] = 0 THEN RSub(RInt(1), RMul(ss_res, RInt(40000)))
        ELSE RSub(RInt(1), RDiv(ss_res, ss_tot))

FitWindow(tk_win, tref_win) ==
    LET f == PolyFit(tk_win, tref_win)
    IN  AlignmentSegment(tk_win[1], tk_win[Len(tk_win)], f.a, f.b,
                         RSquared(tk_win, tref_win, f.a, f.b))

\* mutant of WindowStarts: range(0, n - window, step), which drops the last
\* window start when the windows fit exactly
WindowStartsExclusive(n, window, step) ==
    [k \in 1..((n - window + step - 1) \div step) |-> (k - 1) * step]

\* mutant of WindowStarts: the window starts from the last to the first
WindowStartsDescending(n, window, step) ==
    [k \in 1..(((n - window) \div step) + 1) |->
        (((n - window) \div step) + 1 - k) * step]

\* range(0, n - window + 1, step) as the sequence of its values
WindowStarts(n, window, step) ==
    [k \in 1..(((n - window) \div step) + 1) |-> (k - 1) * step]

\* mutant of ShouldMerge: the intercepts are not compared
ShouldMergeAnyIntercept(seg, last) ==
    /\ RLt(RAbs(RSub(seg.a, last.a)), <<1, 100>>)
    /\ RLt(<<8, 10>>, seg.quality)
    /\ RLt(<<8, 10>>, last.quality)

\* the merge condition of lines 272-275; 0.1 seconds is REF_FPS / 10 ticks
ShouldMerge(seg, last) ==
    /\ RLt(RAbs(RSub(seg.a, last.a)), <<1, 100>>)
    /\ RLt(RAbs(RSub(seg.b, last.b)), <<REF_FPS, 10>>)
    /\ RLt(<<8, 10>>, seg.quality)
    /\ RLt(<<8, 10>>, last.quality)

MergeInto(last, seg) ==
    AlignmentSegment(last.tk_start, seg.tk_end,
                     RDiv(RAdd(seg.a, last.a), RInt(2)),
                     RDiv(RAdd(seg.b, last.b), RInt(2)),
                     RMin(seg.quality, last.quality))

\* the merge loop of lines 263-285 from segment i on
RECURSIVE MergePass(_, _, _)
MergePass(segments, merged, i) ==
    IF i > Len(segments) THEN merged
    ELSE LET seg == segments[i] IN
         IF merged = <<>> THEN MergePass(segments, <<seg>>, i + 1)
         ELSE LET last == merged[Len(merged)] IN
              IF ShouldMerge(seg, last)
              THEN MergePass(segments,
                             [merged EXCEPT ![Len(merged)] = MergeInto(last, seg)],
                             i + 1)
              ELSE MergePass(segments, Append(merged, seg), i + 1)

\* mutant of WindowStep: windows that follow one another without overlap
WholeWindowStep(window) == window

\* line 243
WindowStep(window) == window \div 2

\* the segments of the sliding windows, before the merge pass
WindowSegments(tk, tref, window) ==
    LET n      == Len(tk)
        step   == WindowStep(window)
        starts == WindowStarts(n, window, step)
    IN  [k \in 1..Len(starts) |->
           LET i       == starts[k]
               end_idx == Min2(i + window, n)
           IN  FitWindow(Slice(tk, i, end_idx), Slice(tref, i, end_idx))]

\* mutant of ShortSequence: the test of line 233 off by one
ShortSequenceByTwo(n, window) == n < window - 1

\* line 233
ShortSequence(n, window) == n < window

fit_piecewise_linear(tk, tref, window) ==
    IF ShortSequence(Len(tk), window)
    THEN <<FitWindow(tk, tref)>>
    ELSE MergePass(WindowSegments(tk, tref, window), <<>>, 1)

\* the locals of fit_piecewise_linear at its return: at line 240 (branch
\* "single") or at line 289 (branch "windowed")
FitLocals(tk, tref, window) ==
    IF ShortSequence(Len(tk), window)
    THEN [branch |-> "single", n |-> Len(tk),
          segments |-> <<FitWindow(tk, tref)>>]
    ELSE LET segments == Tuple(WindowSegments(tk, tref, window))
         IN  [branch |-> "windowed", n |-> Len(tk), step |-> WindowStep(window),
              segments |-> segments,
              merged   |-> MergePass(segments, <<>>, 1)]

-----------------------------------------------------------------------------
(* warp_pitch_to_karaoke (preprocess_full.py 379-444).                     *)
(* Grid times are ticks (tk_grid[i] = i / REF_FPS seconds is tick i),      *)
(* duration_k is given in hundredths of a second, pitches are integers in  *)
(* Hz and confidences integers in hundredths; interpolation and smoothing  *)
(* round down to these units.                                              *)

\* AlignmentSegment.map_time
map_time(seg, tk) == RAdd(RMul(seg.a, RInt(tk)), seg.b)

Covers(seg, tk) == seg.tk_start <= tk /\ tk <= seg.tk_end

\* mutant of NearestSegment: the last minimum
NearestSegmentLast(alignment_segments, tk) ==
    CHOOSE i \in 1..Len(alignment_segments) :
        \A k \in 1..Len(alignment_segments) :
            LET di == Abs(tk - alignment_segments[i].tk_start)
                dk == Abs(tk - alignment_segments[k].tk_start)
            IN  di < dk \/ (di = dk /\ i >= k)

\* np.argmin(distances) over abs(tk - seg.tk_start): the first minimum
NearestSegment(alignment_segments, tk) ==
    CHOOSE i \in 1..Len(alignment_segments) :
        \A k \in 1..Len(alignment_segments) :
            LET di == Abs(tk - alignment_segments[i].tk_start)
                dk == Abs(tk - alignment_segments[k].tk_start)
            IN  di < dk \/ (di = dk /\ i <= k)

\* lines 397-406: the index of the segment used for tk, or 0 when
\* np.argmin is called on an empty list (ValueError)
FindSegment(alignment_segments, tk) ==
    LET covering == {i \in 1..Len(alignment_segments) :
                        Covers(alignment_segments[i], tk)}
    IN  IF covering # {}
        THEN CHOOSE i \in covering : \A k \in covering : i <= k
        ELSE IF alignment_segments = <<>> THEN 0
        ELSE NearestSegment(alignment_segments, tk)

\* scipy interp1d(x, y, kind='linear', bounds_error=False, fill_value=0.0)
\* evaluated at the rational t, for at least two points x
Interp1d(x, y, t) ==
    LET n == Len(x) IN
    IF RLt(t, RInt(x[1])) \/ RLt(RInt(x[n]), t) THEN 0
    ELSE LET below == Cardinality({k \in 1..n : RLt(RInt(x[k]), t)})
             lo    == Min2(Max2(below, 1), n - 1)
             hi    == lo + 1
         IN  RFloor(RAdd(RInt(y[lo]),
                         RDiv(RMul(RInt(y[hi] - y[lo]), RSub(t, RInt(x[lo]))),
                              RInt(x[hi] - x[lo]))))

\* mutant of EmaSmooth: every frame is blended with the frame before it
RECURSIVE EmaSmoothAlways(_, _, _)
EmaSmoothAlways(f0_warped, f0_smooth, i) ==
    IF i > Len(f0_warped) THEN f0_smooth
    ELSE EmaSmoothAlways(f0_warped,
                         Append(f0_smooth,
                                (3 * f0_warped[i] + 7 * f0_smooth[i - 1]) \div 10),
                         i + 1)

\* lines 431-440 from frame i on: alpha = 0.3
RECURSIVE EmaSmooth(_, _, _)
EmaSmooth(f0_warped, f0_smooth, i) ==
    IF i > Len(f0_warped) THEN f0_smooth
    ELSE IF f0_warped[i] > 0 /\ f0_smooth[i - 1] > 0
    THEN EmaSmooth(f0_warped,
                   Append(f0_smooth, (3 * f0_warped[i] + 7 * f0_smooth[i - 1]) \div 10),
                   i + 1)
    ELSE EmaSmooth(f0_warped, Append(f0_smooth, f0_warped[i]), i + 1)

NumFrames(duration_k) == (duration_k * REF_FPS) \div 100

warp_pitch_to_karaoke(times_ref, f0_ref, conf_ref, alignment_segments, duration_k) ==
    LET num_frames == NumFrames(duration_k)
        tk_grid    == [i \in 1..num_frames |-> i - 1]
        seg_index  == [i \in 1..num_frames |->
                         FindSegment(alignment_segments, tk_grid[i])]
    IN  IF \E i \in 1..num_frames : seg_index[i] = 0
        THEN [error |-> "ValueError", tk_grid |-> tk_grid, seg_index |-> seg_index]
        ELSE LET tref_mapped == [i \in 1..num_frames |->
                                   map_time(alignment_segments[seg_index[i]], tk_grid[i])]
                 f0_warped   == [i \in 1..num_frames |->
                                   Interp1d(times_ref, f0_ref, tref_mapped[i])]
                 conf_warped == [i \in 1..num_frames |->
                                   Interp1d(times_ref, conf_ref, tref_mapped[i])]
             IN  IF num_frames = 0
                 \* line 434 reads f0_warped[0] of an empty array
                 THEN [error |-> "IndexError", tk_grid |-> tk_grid,
                       seg_index |-> seg_index]
                 ELSE [error       |-> "none",
                       tk_grid     |-> tk_grid,
                       seg_index   |-> seg_index,
                       tref_mapped |-> tref_mapped,
                       f0_warped   |-> f0_warped,
                       f0_smooth   |-> EmaSmooth(f0_warped, <<f0_warped[1]>>, 2),
                       conf_warped |-> conf_warped]

-----------------------------------------------------------------------------
(* create_note_bins (preprocess_full.py 447-501).                          *)
(* Times are ticks, pitches integers in Hz, confidences in hundredths.     *)
(* A median is an exact rational.                                          *)

\* 0.2 seconds, in ticks of 1/REF_FPS second
MIN_NOTE_DURATION == 10

\* 0.3, in hundredths
PITCH_CONF_THRESHOLD == 30

NOTE_TOLERANCE_CENTS == 40

RECURSIVE InsertSorted(_, _)
InsertSorted(s, x) ==
    IF s = <<>> THEN <<x>>
    ELSE IF x <= Head(s) THEN <<x>> \o s
    ELSE <<Head(s)>> \o InsertSorted(Tail(s), x)

RECURSIVE SortAscending(_)
SortAscending(s) == IF s = <<>> THEN <<>> ELSE InsertSorted(SortAscending(Tail(s)), Head(s))

\* np.median of a non-empty sequence of integers
Median(s) ==
    LET sorted == SortAscending(s)
        n      == Len(s)
    IN  IF n % 2 = 1 THEN RInt(sorted[(n + 1) \div 2])
        ELSE Rat(sorted[n \div 2] + sorted[(n \div 2) + 1], 2)

Voiced(f0, confidence, i) == f0[i] > 0 /\ confidence[i] > PITCH_CONF_THRESHOLD

\* mutant of VoicedRuns: a run still open at the last frame is dropped
RECURSIVE VoicedRunsClosedOnly(_, _, _, _, _)
VoicedRunsClosedOnly(f0, confidence, i, in_segment, start_idx) ==
    IF i > Len(f0) THEN <<>>
    ELSE IF Voiced(f0, confidence, i) /\ ~in_segment
    THEN VoicedRunsClosedOnly(f0, confidence, i + 1, TRUE, i - 1)
    ELSE IF ~Voiced(f0, confidence, i) /\ in_segment
    THEN <<<<start_idx, i - 1>>>>
         \o VoicedRunsClosedOnly(f0, confidence, i + 1, FALSE, start_idx)
    ELSE VoicedRunsClosedOnly(f0, confidence, i + 1, in_segment, start_idx)

\* lines 461-474: the runs (start_idx, end_idx), 0-based and half-open,
\* found by the scan from frame i (1-based) on
RECURSIVE VoicedRuns(_, _, _, _, _)
VoicedRuns(f0, confidence, i, in_segment, start_idx) ==
    IF i > Len(f0)
    THEN (IF in_segment THEN <<<<start_idx, Len(f0)>>>> ELSE <<>>)
    ELSE IF Voiced(f0, confidence, i) /\ ~in_segment
    THEN VoicedRuns(f0, confidence, i + 1, TRUE, i - 1)
    ELSE IF ~Voiced(f0, confidence, i) /\ in_segment
    THEN <<<<start_idx, i - 1>>>> \o VoicedRuns(f0, confidence, i + 1, FALSE, start_idx)
    ELSE VoicedRuns(f0, confidence, i + 1, in_segment, start_idx)

\* mutant of BinsOfRun: the minimum duration is not required
BinsOfRunNoMinimum(times, f0, run, tolerance_cents) ==
    LET start_idx == run[1]
        end_idx   == run[2]
    IN  <<[start     |-> times[start_idx + 1],
           end       |-> times[end_idx],
           f0        |-> Median(Slice(f0, start_idx, end_idx)),
           tol_cents |-> tolerance_cents]>>

\* lines 477-497 for one run: the bins it adds (none or one)
BinsOfRun(times, f0, run, tolerance_cents) ==
    LET start_idx == run[1]
        end_idx   == run[2]
        duration  == times[end_idx] - times[start_idx + 1]
        segment_f0 == Slice(f0, start_idx, end_idx)
        segment_f0_voiced ==
            LET idx == SelectIdx(Len(segment_f0),
                                 {k \in 1..Len(segment_f0) : segment_f0[k] > 0}, 1)
            IN  [k \in 1..Len(idx) |-> segment_f0[idx[k]]]
    IN  IF duration < MIN_NOTE_DURATION THEN <<>>
        ELSE IF Len(segment_f0_voiced) = 0 THEN <<>>
        ELSE <<[start     |-> times[start_idx + 1],
                end       |-> times[end_idx],
                f0        |-> Median(segment_f0_voiced),
                tol_cents |-> tolerance_cents]>>

RECURSIVE BinsOfRuns(_, _, _, _)
BinsOfRuns(times, f0, runs, tolerance_cents) ==
    IF runs = <<>> THEN <<>>
    ELSE BinsOfRun(times, f0, Head(runs), tolerance_cents)
         \o BinsOfRuns(times, f0, Tail(runs), tolerance_cents)

create_note_bins(times, f0, confidence, tolerance_cents) ==
    BinsOfRuns(times, f0, VoicedRuns(f0, confidence, 1, FALSE, 0), tolerance_cents)

-----------------------------------------------------------------------------
(* refine_results.py: extract_phrase_pitch (38-41), align_phrase_dtw       *)
(* (44-72), calculate_phrase_metrics (75-157).                             *)
(* Times are integers (ticks), pitches integers in Hz.  Cents are integers *)
(* in thousandths of a cent; accuracy, median error and timing offset are  *)
(* exact rationals; dtw_cost is an integer in hundredths.                  *)

\* round(1200 * log2(f) * 1000) for the pitches the specifications use
Log2MilliCents(f) ==
    CASE f = 100 -> 7972627
      [] f = 102 -> 8006910
      [] f = 103 -> 8023801
      [] f = 106 -> 8073505
      [] f = 200 -> 9172627
      [] f = 206 -> 9223801

\* 1200 * np.log2(singer_freq / ref_freq); exactly 0 for equal pitches
CentsError(singer_freq, ref_freq) ==
    Log2MilliCents(singer_freq) - Log2MilliCents(ref_freq)

\* abs(e) <= 50
WithinTolerance(e) == Abs(e) <= 50000

\* floor(sqrt(n)) for 0 <= n < 46340^2, by bisection of lo..hi
RECURSIVE ISqrtBetween(_, _, _)
ISqrtBetween(n, lo, hi) ==
    IF lo >= hi THEN lo
    ELSE LET mid == (lo + hi + 1) \div 2
         IN  IF mid * mid <= n THEN ISqrtBetween(n, mid, hi)
             ELSE ISqrtBetween(n, lo, mid - 1)

ISqrt(n) == ISqrtBetween(n, 0, 46339)

\* times[mask], f0[mask] for mask = (times >= start) & (times <= end)
extract_phrase_pitch(times, f0, start, end) ==
    LET idx == SelectIdx(Len(times),
                         {i \in 1..Len(times) : times[i] >= start /\ times[i] <= end},
                         1)
    IN  [t  |-> Tuple([k \in 1..Len(idx) |-> times[idx[k]]]),
         f0 |-> Tuple([k \in 1..Len(idx) |-> f0[idx[k]]])]

\* the positions (1-based) of the voiced samples of pitch: pitch > 0
VoicedIdx(pitch) == SelectIdx(Len(pitch), {i \in 1..Len(pitch) : pitch[i] > 0}, 1)

\* pitch[pitch > 0]
VoicedOnly(pitch) ==
    LET idx == VoicedIdx(pitch) IN Tuple([k \in 1..Len(idx) |-> pitch[idx[k]]])

\* mutant of TooFewVoiced: the threshold one too low
TooFewVoicedBelowTwo(ref_voiced, singer_voiced) ==
    Len(ref_voiced) < 2 \/ Len(singer_voiced) < 2

\* line 57
TooFewVoiced(ref_voiced, singer_voiced) ==
    Len(ref_voiced) < 3 \/ Len(singer_voiced) < 3

\* align_phrase_dtw: the indices returned are 0-based positions in the
\* voiced-only arrays ref_voiced and singer_voiced
align_phrase_dtw(ref_pitch, singer_pitch) ==
    LET ref_voiced    == VoicedOnly(ref_pitch)
        singer_voiced == VoicedOnly(singer_pitch)
    IN  IF TooFewVoiced(ref_voiced, singer_voiced)
        THEN [cost |-> 100, ref_indices |-> <<>>, singer_indices |-> <<>>]
        ELSE LET r      == Len(ref_voiced)
                 c      == Len(singer_voiced)
                 \* no window argument: the whole matrix is filled
                 paths  == WarpingPaths(ref_voiced, singer_voiced, Max2(r, c))
                 \* dtw.distance = sqrt(paths[r][c]); cost = distance / max(r, c)
                 cost   == ISqrt(10000 * paths[r][c]) \div Max2(r, c)
                 path   == BestPathFrom(paths, r, c)
             IN  [cost           |-> cost,
                  ref_indices    |-> Tuple([k \in 1..Len(path) |-> path[k][1] - 1]),
                  singer_indices |-> Tuple([k \in 1..Len(path) |-> path[k][2] - 1])]

\* lines 118-126: the cents errors of the aligned pairs from pair p on;
\* ref_f0 and singer_f0 are the phrase arrays of lines 93-94
RECURSIVE CentsErrors(_, _, _, _, _)
CentsErrors(ref_f0, singer_f0, ref_idx, singer_idx, p) ==
    IF p > Len(ref_idx) THEN <<>>
    ELSE LET ref_freq    == ref_f0[ref_idx[p] + 1]
             singer_freq == singer_f0[singer_idx[p] + 1]
         IN  (IF ref_freq > 0 /\ singer_freq > 0
              THEN <<CentsError(singer_freq, ref_freq)>> ELSE <<>>)
             \o CentsErrors(ref_f0, singer_f0, ref_idx, singer_idx, p + 1)

\* lines 139-143
RECURSIVE TimingOffsets(_, _, _, _, _)
TimingOffsets(ref_t, singer_t, ref_idx, singer_idx, p) ==
    IF p > Len(ref_idx) THEN <<>>
    ELSE (IF ref_idx[p] < Len(ref_t) /\ singer_idx[p] < Len(singer_t)
          THEN <<singer_t[singer_idx[p] + 1] - ref_t[ref_idx[p] + 1]>> ELSE <<>>)
         \o TimingOffsets(ref_t, singer_t, ref_idx, singer_idx, p + 1)

\* mutant of PhraseAccuracy: the accuracy as a percentage, 0 to 100
PhraseAccuracyPercent(cents_errors) ==
    IF Len(cents_errors) = 0 THEN <<0, 1>>
    ELSE Rat(100 * Cardinality({k \in 1..Len(cents_errors) :
                                   WithinTolerance(cents_errors[k])}),
             Len(cents_errors))

\* lines 128-136
PhraseAccuracy(cents_errors) ==
    IF Len(cents_errors) = 0 THEN <<0, 1>>
    ELSE Rat(Cardinality({k \in 1..Len(cents_errors) :
                             WithinTolerance(cents_errors[k])}),
             Len(cents_errors))

\* line 149
OnBeatPct(accuracy) == accuracy

DegenerateMetrics(dtw_cost) ==
    [accuracy |-> <<0, 1>>, median_cents_error |-> <<0, 1>>,
     on_beat_pct |-> <<0, 1>>, timing_offset |-> <<0, 1>>,
     dtw_cost |-> dtw_cost]

\* the locals of calculate_phrase_metrics at its return
PhraseLocals(ref_times, ref_pitch, singer_times, singer_pitch, phrase_start, phrase_end) ==
    LET ref    == extract_phrase_pitch(ref_times, ref_pitch, phrase_start, phrase_end)
        singer == extract_phrase_pitch(singer_times, singer_pitch, phrase_start, phrase_end)
    IN  IF Len(ref.f0) = 0 \/ Len(singer.f0) = 0
        THEN [returned |-> "empty", ref_t |-> ref.t, ref_f0 |-> ref.f0,
              singer_t |-> singer.t, singer_f0 |-> singer.f0]
        ELSE LET al == align_phrase_dtw(ref.f0, singer.f0) IN
             IF Len(al.ref_indices) = 0
             THEN [returned |-> "unaligned", ref_t |-> ref.t, ref_f0 |-> ref.f0,
                   singer_t |-> singer.t, singer_f0 |-> singer.f0,
                   dtw_cost |-> al.cost]
             ELSE [returned   |-> "scored",
                   ref_t      |-> ref.t,
                   ref_f0     |-> ref.f0,
                   singer_t   |-> singer.t,
                   singer_f0  |-> singer.f0,
                   dtw_cost   |-> al.cost,
                   ref_idx    |-> al.ref_indices,
                   singer_idx |-> al.singer_indices,
                   cents_errors |-> CentsErrors(ref.f0, singer.f0,
                                                al.ref_indices, al.singer_indices, 1),
                   timing_offsets |-> TimingOffsets(ref.t, singer.t,
                                                    al.ref_indices, al.singer_indices, 1)]

MetricsOf(locals) ==
    IF locals.returned = "empty" THEN DegenerateMetrics(100)
    ELSE IF locals.returned = "unaligned" THEN DegenerateMetrics(locals.dtw_cost)
    ELSE LET accuracy == PhraseAccuracy(locals.cents_errors) IN
         [accuracy           |-> accuracy,
          median_cents_error |-> IF Len(locals.cents_errors) = 0 THEN <<0, 1>>
                                 ELSE Median(locals.cents_errors),
          on_beat_pct        |-> OnBeatPct(accuracy),
          timing_offset      |-> IF Len(locals.timing_offsets) = 0 THEN <<0, 1>>
                                 ELSE Rat(SumSeq(locals.timing_offsets),
                                          Len(locals.timing_offsets)),
          dtw_cost           |-> locals.dtw_cost]

calculate_phrase_metrics(ref_times, ref_pitch, singer_times, singer_pitch, phrase_start, phrase_end) ==
    MetricsOf(PhraseLocals(ref_times, ref_pitch, singer_times, singer_pitch,
                           phrase_start, phrase_end))

-----------------------------------------------------------------------------
(* detect_phrases (preprocess_full.py 550-576), the part of                *)
(* build_reference_json that refine_results reads (727, 739-743) and       *)
(* refine_results (refine_results.py 160-222).  Times are ticks of         *)
(* 1/REF_FPS second.  The pitch_timeline chart of refine_results is        *)
(* resampled display data and is left out of its return value here.        *)

\* 2.0 seconds, the minimum phrase length, in ticks
MinPhraseLength == 2 * REF_FPS

\* mutant of LongEnough: a phrase of exactly the minimum length is kept
AtLeastMinimum(start, end) == end - start >= MinPhraseLength

\* lines 557 and 567
LongEnough(start, end) == end - start > MinPhraseLength

\* lines 553-562: the phrases between consecutive onsets, from the 0-based
\* onset i on
RECURSIVE PhrasesBetweenOnsets(_, _)
PhrasesBetweenOnsets(onsets, i) ==
    IF i >= Len(onsets) - 1 THEN <<>>
    ELSE (IF LongEnough(onsets[i + 1], onsets[i + 2])
          THEN <<[id |-> i + 1, start |-> onsets[i + 1], end |-> onsets[i + 2]]>>
          ELSE <<>>)
         \o PhrasesBetweenOnsets(onsets, i + 1)

\* detect_phrases after the onset detection; duration is len(audio) / sr
detect_phrases(onsets, duration) ==
    LET phrases == PhrasesBetweenOnsets(onsets, 0)
    IN  IF Len(onsets) > 0 /\ LongEnough(onsets[Len(onsets)], duration)
        THEN Append(phrases, [id    |-> Len(phrases) + 1,
                              start |-> onsets[Len(onsets)],
                              end   |-> duration])
        ELSE phrases

\* mutant of VoicedFrame: every frame is kept
AnyFrame(f0) == f0 >= 0

\* line 742
VoicedFrame(f0) == f0 > 0

\* lines 739-743
F0RefOnK(times_k, f0_warped, conf_warped) ==
    LET idx == SelectIdx(Len(times_k),
                         {i \in 1..Len(times_k) : VoicedFrame(f0_warped[i])}, 1)
    IN  Tuple([k \in 1..Len(idx) |-> [t    |-> times_k[idx[k]],
                                      f0   |-> f0_warped[idx[k]],
                                      conf |-> conf_warped[idx[k]]]])

\* AlignmentSegment.to_dict
to_dict(seg) ==
    [tk_start |-> seg.tk_start, tk_end |-> seg.tk_end, a |-> seg.a,
     b |-> seg.b, quality |-> seg.quality]

\* lines 731-736: the segments entry is the empty list, whatever
\* alignment_segments holds
WarpT(times_k, tref_aligned, alignment_segments) ==
    [tk |-> times_k, tref |-> tref_aligned, quality |-> 85, segments |-> <<>>]

\* build_reference_json: the fields of the document that come from the
\* alignment, the warped pitch and the phrases
build_reference_json(times_k, f0_warped, conf_warped, onsets, duration_k, alignment_segments, tref_aligned) ==
    [phrases_k   |-> detect_phrases(onsets, duration_k),
     warp_T      |-> WarpT(times_k, tref_aligned, alignment_segments),
     f0_ref_on_k |-> F0RefOnK(times_k, f0_warped, conf_warped)]

\* doc.get(key, [])
GetOrEmpty(doc, key) == IF key \in DOMAIN doc THEN doc[key] ELSE <<>>

RECURSIVE RInsertSorted(_, _)
RInsertSorted(s, x) ==
    IF s = <<>> THEN <<x>>
    ELSE IF RLe(x, Head(s)) THEN <<x>> \o s
    ELSE <<Head(s)>> \o RInsertSorted(Tail(s), x)

RECURSIVE RSortAscending(_)
RSortAscending(s) ==
    IF s = <<>> THEN <<>> ELSE RInsertSorted(RSortAscending(Tail(s)), Head(s))

\* np.median of a non-empty sequence of rationals
RMedian(s) ==
    LET sorted == RSortAscending(s)
        n      == Len(s)
    IN  IF n % 2 = 1 THEN sorted[(n + 1) \div 2]
        ELSE RDiv(RAdd(sorted[n \div 2], sorted[(n \div 2) + 1]), RInt(2))

\* lines 186-205
RefinedPhrases(phrases, ref_times, ref_pitch, perf_times, perf_pitch) ==
    Tuple([k \in 1..Len(phrases) |->
             [id |-> phrases[k].id, start |-> phrases[k].start,
              end |-> phrases[k].end]
             @@ calculate_phrase_metrics(ref_times, ref_pitch, perf_times,
                                         perf_pitch, phrases[k].start,
                                         phrases[k].end)])

\* line 220
PhraseAccuracyChart(refined_phrases) ==
    Tuple([k \in 1..Len(refined_phrases) |-> refined_phrases[k].accuracy])

\* mutant of OverallAccuracy: the mean over the phrases that were scored,
\* the degenerate ones left out
OverallAccuracyOfScored(refined_phrases) ==
    LET idx == SelectIdx(Len(refined_phrases),
                         {k \in 1..Len(refined_phrases) :
                            refined_phrases[k].dtw_cost # 100}, 1)
    IN  IF Len(idx) = 0 THEN <<0, 1>>
        ELSE RDiv(RSumSeq([k \in 1..Len(idx) |-> refined_phrases[idx[k]].accuracy]),
                  RInt(Len(idx)))

\* line 208
OverallAccuracy(refined_phrases) ==
    IF Len(refined_phrases) = 0 THEN <<0, 1>>
    ELSE RDiv(RSumSeq(PhraseAccuracyChart(refined_phrases)),
              RInt(Len(refined_phrases)))

\* mutant of OverallMedianError: np.median without the guard, which is nan
\* (written <<0, 0>>) for an empty list
OverallMedianErrorUnguarded(refined_phrases) ==
    IF Len(refined_phrases) = 0 THEN <<0, 0>>
    ELSE RMedian([k \in 1..Len(refined_phrases) |->
                    refined_phrases[k].median_cents_error])

\* line 209
OverallMedianError(refined_phrases) ==
    IF Len(refined_phrases) = 0 THEN <<0, 1>>
    ELSE RMedian([k \in 1..Len(refined_phrases) |->
                    refined_phrases[k].median_cents_error])

\* refine_results has no raise statement, and for timestamp and pitch arrays
\* of equal length no operation of it raises: error is "none" on every path
refine_results(ref_doc, perf_doc) ==
    LET phrases        == GetOrEmpty(ref_doc, "phrases_k")
        ref_pitch_data == GetOrEmpty(ref_doc, "f0_ref_on_k")
        ref_times  == Tuple([k \in 1..Len(ref_pitch_data) |-> ref_pitch_data[k].t])
        ref_pitch  == Tuple([k \in 1..Len(ref_pitch_data) |-> ref_pitch_data[k].f0])
        perf_times == GetOrEmpty(perf_doc, "timestamps")
        perf_pitch == GetOrEmpty(perf_doc, "pitch")
        refined_phrases == RefinedPhrases(phrases, ref_times, ref_pitch,
                                          perf_times, perf_pitch)
    IN  [error   |-> "none",
         overall |-> [accuracy           |-> OverallAccuracy(refined_phrases),
                      median_cents_error |-> OverallMedianError(refined_phrases)],
         phrases |-> refined_phrases,
         charts  |-> [phrase_accuracy |-> PhraseAccuracyChart(refined_phrases)]]

-----------------------------------------------------------------------------
(* calculate_phrase_metrics (refine_results.py 75-157) as the steps of one *)
(* call, for calls that run interleaved: a frame holds the locals of one   *)
(* call and the place the call has reached.                                *)

\* the frame of a call that has not started; phrase is the dict of line 186
NewFrame(phrase) ==
    [at |-> "start", phrase_start |-> phrase.start, phrase_end |-> phrase.end,
     returned |-> "no", ref_t |-> <<>>, ref_f0 |-> <<>>, singer_t |-> <<>>,
     singer_f0 |-> <<>>, dtw_cost |-> 0, ref_idx |-> <<>>, singer_idx |-> <<>>,
     cents_errors |-> <<>>, timing_offsets |-> <<>>, metrics |-> None]

\* mutant of FrameOf: one frame for all the calls, the first call's
SharedFrame(frames, k) == frames[1]

\* the locals of call k are its own: no name of calculate_phrase_metrics is
\* global or nonlocal
FrameOf(frames, k) == frames[k]

\* lines 93-103
ExtractStep(frame, ref_times, ref_pitch, singer_times, singer_pitch) ==
    LET ref    == extract_phrase_pitch(ref_times, ref_pitch,
                                       frame.phrase_start, frame.phrase_end)
        singer == extract_phrase_pitch(singer_times, singer_pitch,
                                       frame.phrase_start, frame.phrase_end)
        got    == [frame EXCEPT !.ref_t = ref.t, !.ref_f0 = ref.f0,
                                !.singer_t = singer.t, !.singer_f0 = singer.f0]
    IN  IF Len(ref.f0) = 0 \/ Len(singer.f0) = 0
        THEN [got EXCEPT !.at = "done", !.returned = "empty",
                         !.metrics = DegenerateMetrics(100)]
        ELSE [got EXCEPT !.at = "extracted"]

\* lines 106-115
AlignStep(frame) ==
    LET al  == align_phrase_dtw(frame.ref_f0, frame.singer_f0)
        got == [frame EXCEPT !.dtw_cost = al.cost, !.ref_idx = al.ref_indices,
                             !.singer_idx = al.singer_indices]
    IN  IF Len(al.ref_indices) = 0
        THEN [got EXCEPT !.at = "done", !.returned = "unaligned",
                         !.metrics = DegenerateMetrics(al.cost)]
        ELSE [got EXCEPT !.at = "aligned"]

\* lines 118-157
MeasureStep(frame) ==
    LET got == [frame EXCEPT
                  !.returned = "scored",
                  !.cents_errors = CentsErrors(frame.ref_f0, frame.singer_f0,
                                               frame.ref_idx, frame.singer_idx, 1),
                  !.timing_offsets = TimingOffsets(frame.ref_t, frame.singer_t,
                                                   frame.ref_idx,
                                                   frame.singer_idx, 1)]
    IN  [got EXCEPT !.at = "done", !.metrics = MetricsOf(got)]

-----------------------------------------------------------------------------
(* Key estimation: detect_key of preprocess_full.py (607-642) with the key *)
(* step of build_reference_json (711-728), and detect_key of analyze.py    *)
(* (181-232) with the key step of extract_enhanced_features (83-124).      *)
(* The chroma extraction and the correlations are librosa's and numpy's:   *)
(* features says whether the extraction raises and, when it does not,      *)
(* gives the 12 major and 12 minor correlations, in hundredths.            *)

key_names == <<"C", "C#", "D", "D#", "E", "F", "F#", "G", "G#", "A", "A#", "B">>

\* f"{key_names[shift]} {mode}"
KeyName(shift, mode) == <<key_names[shift + 1], mode>>

\* preprocess_full.py 623-631: the list of (mode, shift, corr)
Correlations(features) ==
    [k \in 1..24 |->
       LET shift == (k - 1) \div 2
       IN  IF k % 2 = 1
           THEN [mode |-> "major", shift |-> shift, corr |-> features.major[shift + 1]]
           ELSE [mode |-> "minor", shift |-> shift, corr |-> features.minor[shift + 1]]]

\* max(correlations, key=lambda x: x[2]): the first entry of the largest corr
MaxByCorr(correlations) ==
    correlations[CHOOSE k \in 1..Len(correlations) :
                    /\ \A j \in 1..Len(correlations) :
                          correlations[j].corr <= correlations[k].corr
                    /\ \A j \in 1..(k - 1) :
                          correlations[j].corr < correlations[k].corr]

\* np.argmax: the 0-based position of the first largest element
ArgMax(x) ==
    (CHOOSE k \in 1..Len(x) : /\ \A j \in 1..Len(x) : x[j] <= x[k]
                              /\ \A j \in 1..(k - 1) : x[j] < x[k]) - 1

\* detect_key of preprocess_full.py: no handler, an exception of the
\* extraction leaves the function
detect_key(features) ==
    IF features.raises THEN [raised |-> TRUE]
    ELSE LET best == MaxByCorr(Correlations(features))
         IN  [raised |-> FALSE, key |-> KeyName(best.shift, best.mode)]

\* build_reference_json at its key step (line 712) and on to its return:
\* an exception of detect_key leaves build_reference_json and main, and no
\* document is produced
build_reference_key(features) ==
    LET k == detect_key(features)
    IN  IF k.raised THEN [built |-> FALSE, error |-> "Exception"]
        ELSE [built |-> TRUE, error |-> "none", document |-> [key |-> k.key]]

\* detect_key of analyze.py: every exception is caught (line 230) and
\* ("C major", 0.5) returned
analyze_detect_key(features) ==
    IF features.raises THEN [key_name |-> <<"C", "major">>, confidence |-> 50]
    ELSE LET major_max_idx == ArgMax(features.major)
             minor_max_idx == ArgMax(features.minor)
             major_corr    == features.major[major_max_idx + 1]
             minor_corr    == features.minor[minor_max_idx + 1]
         IN  IF major_corr > minor_corr
             THEN [key_name |-> KeyName(major_max_idx, "major"),
                   confidence |-> major_corr]
             ELSE [key_name |-> KeyName(minor_max_idx, "minor"),
                   confidence |-> minor_corr]

\* extract_enhanced_features at its key step (line 85) and on to its return
extract_enhanced_features_key(features) ==
    LET k == analyze_detect_key(features)
    IN  [built |-> TRUE, error |-> "none",
         document |-> [key |-> k.key_name, keyConfidence |-> k.confidence]]

-----------------------------------------------------------------------------
(* Inputs of the alignment specification *)

MaxLenK == 11

MaxLenRef == 21

\* the time between two chroma frames (hop_length / sr seconds), which the
\* alignment specification uses as 60 units of time
HopTicks == 60

ChromaFrames == {<<0, 0>>, <<1, 0>>}

BandWidths == {1, 5}

\* frame times as main() builds them: librosa.frames_to_time(np.arange(n))
FrameTimes(n) == [i \in 1..n |-> (i - 1) * HopTicks]

NumDown(n) == (n + DownsampleFactor - 1) \div DownsampleFactor

\* a chroma matrix of n frames whose every DownsampleFactor-th frame is
\* given by sampled and whose other frames are silent
ChromaOf(n, sampled) ==
    [i \in 1..n |-> IF (i - 1) % DownsampleFactor = 0
                    THEN sampled[((i - 1) \div DownsampleFactor) + 1]
                    ELSE <<0, 0>>]

AlignIdle == alignIn = None /\ alignOut = None

WarpIdle ==
    /\ fitIn = None
    /\ fitOut = None
    /\ fitLocals = None
    /\ warpIn = None
    /\ warpOut = None

BinsIdle == binsIn = None /\ note_bins = None

ScoreIdle == phraseIn = None /\ phraseLocals = None /\ metrics = None

KeyIdle == keyIn = None /\ keyOut = None

OnsetIdle == onsetIn = None /\ phrasesOut = None

PoolIdle == tasks = None

RefineIdle ==
    /\ songIn = None
    /\ reference = None
    /\ performance = None
    /\ refined = None

InitAlign ==
    /\ pc = "input"
    /\ KeyIdle
    /\ OnsetIdle
    /\ PoolIdle
    /\ RefineIdle
    /\ alignOut = None
    /\ WarpIdle
    /\ BinsIdle
    /\ ScoreIdle
    /\ \E len_k \in 1..MaxLenK, len_ref \in 1..MaxLenRef, bw \in BandWidths :
         \E sk \in [1..NumDown(len_k) -> ChromaFrames],
            sr \in [1..NumDown(len_ref) -> ChromaFrames] :
           alignIn = [times_k    |-> FrameTimes(len_k),
                      times_ref  |-> FrameTimes(len_ref),
                      chroma_k   |-> ChromaOf(len_k, sk),
                      chroma_ref |-> ChromaOf(len_ref, sr),
                      band_width |-> bw]

Align ==
    /\ pc = "input"
    /\ alignOut' = align_with_dtw(alignIn.chroma_k, alignIn.chroma_ref,
                                  alignIn.times_k, alignIn.times_ref,
                                  alignIn.band_width)
    /\ pc' = "aligned"
    /\ UNCHANGED <<keyVars, onsetVars, poolVars, alignIn, warpVars, binsVars, scoreVars, refineVars>>

NextAlign == Align

SpecAlign == InitAlign /\ [][NextAlign]_vars

\* C1: in both branches of align_with_dtw the two returned arrays are as
\* long as times_k and the first returned array (tkMatched) is times_k
\* itself, element for element.
C1_TkMatchedIsTimesK ==
    pc = "aligned" =>
        /\ Len(alignOut.tk_aligned) = Len(alignIn.times_k)
        /\ Len(alignOut.tref_aligned) = Len(alignIn.times_k)
        /\ alignOut.tk_aligned = alignIn.times_k


\* |len_k - len_ref| / max(len_k, len_ref) of the call's frame counts
LengthDifference ==
    Rat(Abs(Len(alignIn.times_k) - Len(alignIn.times_ref)),
        Max2(Len(alignIn.times_k), Len(alignIn.times_ref)))

\* C17: align_with_dtw takes the linear-resampling branch and returns
\* quality 0.95 exactly when |len_k - len_ref| / max(len_k, len_ref) < 0.1,
\* strictly; in every other case it takes the downsampled DTW branch and
\* returns quality 0.85.
C17_BranchByLengthDifference ==
    pc = "aligned" =>
        IF RLt(LengthDifference, <<1, 10>>)
        THEN alignOut.branch = "linear" /\ alignOut.quality = 95
        ELSE alignOut.branch = "dtw" /\ alignOut.quality = 85

\* frame counts whose difference is exactly a tenth of the longer, aligned
\* by the DTW branch
C17_Witness ==
    /\ pc = "aligned"
    /\ LengthDifference = <<1, 10>>
    /\ alignOut.branch = "dtw"
    /\ alignOut.quality = 85

-----------------------------------------------------------------------------
(* Inputs of the fit-and-warp specification *)

MaxPairs == 4

MaxWindow == 3

MaxDuration == 14

\* strictly increasing matched karaoke times and non-decreasing reference
\* times, built from their first value and their increments
RECURSIVE Cumulative(_, _)
Cumulative(first, incs) ==
    IF incs = <<>> THEN <<first>>
    ELSE <<first>> \o Cumulative(first + Head(incs), Tail(incs))

\* reference pitch tracks (times in ticks, f0 in Hz, confidence in 1/100)
RefTracks ==
    { [times_ref |-> <<0, 2, 4, 6>>, f0_ref |-> <<200, 220, 0, 180>>,
       conf_ref  |-> <<90, 80, 10, 60>>],
      [times_ref |-> <<1, 3, 4, 9>>, f0_ref |-> <<0, 100, 130, 110>>,
       conf_ref  |-> <<20, 50, 90, 70>>] }

InitWarp ==
    /\ pc = "input"
    /\ KeyIdle
    /\ OnsetIdle
    /\ PoolIdle
    /\ RefineIdle
    /\ AlignIdle
    /\ BinsIdle
    /\ ScoreIdle
    /\ fitOut = None
    /\ fitLocals = None
    /\ warpIn = None
    /\ warpOut = None
    /\ \E n \in 2..MaxPairs, tk0 \in {0, 2}, window \in 2..MaxWindow :
         \E dk \in [1..(n - 1) -> {1, 2}], dref \in [1..(n - 1) -> {1, 2}] :
           fitIn = [tk     |-> Cumulative(tk0, dk),
                    tref   |-> Cumulative(0, dref),
                    window |-> window]

Fit ==
    /\ pc = "input"
    /\ fitOut' = fit_piecewise_linear(fitIn.tk, fitIn.tref, fitIn.window)
    /\ fitLocals' = FitLocals(fitIn.tk, fitIn.tref, fitIn.window)
    /\ pc' = "fitted"
    /\ UNCHANGED <<keyVars, onsetVars, poolVars, alignVars, binsVars, scoreVars, refineVars,
                   fitIn, warpIn, warpOut>>

Warp ==
    /\ pc = "fitted"
    /\ \E track \in RefTracks, duration_k \in 0..MaxDuration :
         /\ warpIn' = [times_ref |-> track.times_ref, f0_ref |-> track.f0_ref,
                       conf_ref |-> track.conf_ref, duration_k |-> duration_k]
         /\ warpOut' = warp_pitch_to_karaoke(track.times_ref, track.f0_ref,
                                             track.conf_ref, fitOut,
                                             duration_k)
    /\ pc' = "warped"
    /\ UNCHANGED <<keyVars, onsetVars, poolVars, alignVars, binsVars, scoreVars, refineVars,
                   fitIn, fitOut, fitLocals>>

\* build_reference_json from its line 681 on, for a signal too short to
\* hold an onset: the document built from the fitted segments, the matched
\* reference times and the warped pitch
BuildWarped ==
    /\ pc = "warped"
    /\ warpOut.error = "none"
    /\ reference' = build_reference_json(warpOut.tk_grid, warpOut.f0_smooth,
                                         warpOut.conf_warped, <<>>,
                                         NumFrames(warpIn.duration_k),
                                         fitOut, fitIn.tref)
    /\ pc' = "built"
    /\ UNCHANGED <<keyVars, onsetVars, poolVars, alignVars, warpVars, binsVars, scoreVars,
                   songIn, performance, refined>>

NextWarp == Fit \/ Warp \/ BuildWarped

SpecWarp == InitWarp /\ [][NextWarp]_vars

\* C2: for every segment list returned by fit_piecewise_linear and every grid
\* time, the lookup of warp_pitch_to_karaoke selects a segment of the list
\* (one that covers the time, or else the nearest one) and does not raise.
C2_LookupAlwaysFindsSegment ==
    pc = "warped" =>
        /\ warpOut.error # "ValueError"
        /\ \A i \in 1..Len(warpOut.tk_grid) :
              /\ warpOut.seg_index[i] \in 1..Len(fitOut)
              /\ LET tk     == warpOut.tk_grid[i]
                     chosen == fitOut[warpOut.seg_index[i]]
                 IN  \/ Covers(chosen, tk)
                     \/ /\ \A k \in 1..Len(fitOut) :
                              ~Covers(fitOut[k], tk)
                        /\ \A k \in 1..Len(fitOut) :
                              Abs(tk - chosen.tk_start)
                                <= Abs(tk - fitOut[k].tk_start)

\* a grid with a covered time and with a time no segment covers
C2_Witness ==
    /\ pc = "warped"
    /\ warpOut.error = "none"
    /\ \E i \in 1..Len(warpOut.tk_grid) :
          Covers(fitOut[warpOut.seg_index[i]], warpOut.tk_grid[i])
    /\ \E i \in 1..Len(warpOut.tk_grid) :
          \A k \in 1..Len(fitOut) :
              ~Covers(fitOut[k], warpOut.tk_grid[i])

\* C12: the document's warp_T.segments holds one entry per segment passed
\* to build_reference_json as alignment_segments, in the same order.
C12_WarpSegmentsPersisted ==
    pc = "built" =>
        /\ Len(reference.warp_T.segments) = Len(fitOut)
        /\ \A k \in 1..Len(fitOut) :
              reference.warp_T.segments[k] = to_dict(fitOut[k])

\* the integers i with 0 <= i < duration_k * fps, duration_k in hundredths
\* of a second
GridIndices(duration_k) ==
    {i \in 0..duration_k : i * 100 < duration_k * REF_FPS}

\* C23: the grid of warp_pitch_to_karaoke holds exactly the times i / 50
\* for the integers i with 0 <= i < duration_k * 50, also when
\* duration_k * 50 is not an integer, and the grid, the warped f0 and the
\* warped confidence all have that many values.
C23_GridCoversDuration ==
    (pc = "warped" /\ warpOut.error = "none") =>
        /\ {warpOut.tk_grid[i] : i \in 1..Len(warpOut.tk_grid)}
             = GridIndices(warpIn.duration_k)
        /\ Len(warpOut.tk_grid) = Cardinality(GridIndices(warpIn.duration_k))
        /\ Len(warpOut.f0_smooth) = Cardinality(GridIndices(warpIn.duration_k))
        /\ Len(warpOut.conf_warped) = Cardinality(GridIndices(warpIn.duration_k))

\* C24: the smoothing blends 0.3 of the current warped sample with 0.7 of
\* the previous smoothed one only when the current and the previous warped
\* sample are both voiced; when either is unvoiced the output is the
\* current warped sample unchanged.  (Blends round down to whole Hz.)
C24_BlendOnlyAcrossVoiced ==
    (pc = "warped" /\ warpOut.error = "none") =>
        /\ warpOut.f0_smooth[1] = warpOut.f0_warped[1]
        /\ \A i \in 2..Len(warpOut.f0_warped) :
              IF warpOut.f0_warped[i] > 0 /\ warpOut.f0_warped[i - 1] > 0
              THEN 10 * warpOut.f0_smooth[i]
                     <= 3 * warpOut.f0_warped[i] + 7 * warpOut.f0_smooth[i - 1]
                   /\ 3 * warpOut.f0_warped[i] + 7 * warpOut.f0_smooth[i - 1]
                     < 10 * (warpOut.f0_smooth[i] + 1)
              ELSE warpOut.f0_smooth[i] = warpOut.f0_warped[i]

\* a grid with a blended frame that differs from its warped sample, a
\* voiced frame after an unvoiced one and an unvoiced frame after a voiced
\* one
C24_Witness ==
    /\ pc = "warped"
    /\ warpOut.error = "none"
    /\ \E i \in 2..Len(warpOut.f0_warped) :
          /\ warpOut.f0_warped[i] > 0
          /\ warpOut.f0_warped[i - 1] > 0
          /\ warpOut.f0_smooth[i] # warpOut.f0_warped[i]
    /\ \E i \in 2..Len(warpOut.f0_warped) :
          warpOut.f0_warped[i] > 0 /\ warpOut.f0_warped[i - 1] = 0
    /\ \E i \in 2..Len(warpOut.f0_warped) :
          warpOut.f0_warped[i] = 0 /\ warpOut.f0_warped[i - 1] > 0

\* the first frame of the voiced run that holds the voiced frame i
RunStart(f0_warped, i) ==
    CHOOSE j \in 1..i :
        /\ \A k \in j..i : f0_warped[k] > 0
        /\ j = 1 \/ f0_warped[j - 1] = 0

\* C30: for non-negative warped pitch, a smoothed frame is voiced exactly
\* when its warped frame is, the first frame of every voiced run is passed
\* through unchanged, and every smoothed value of a voiced run lies between
\* the smallest and the largest warped value of the run so far.
C30_SmoothingPreservesVoicing ==
    (pc = "warped" /\ warpOut.error = "none") =>
        \A i \in 1..Len(warpOut.f0_warped) :
            /\ warpOut.f0_smooth[i] > 0 <=> warpOut.f0_warped[i] > 0
            /\ warpOut.f0_warped[i] > 0 =>
                  LET first == RunStart(warpOut.f0_warped, i)
                      seen  == {warpOut.f0_warped[k] : k \in first..i}
                  IN  /\ warpOut.f0_smooth[first] = warpOut.f0_warped[first]
                      /\ \E lo \in seen : lo <= warpOut.f0_smooth[i]
                      /\ \E hi \in seen : warpOut.f0_smooth[i] <= hi

\* a voiced run that starts after an unvoiced frame and holds a smoothed
\* value that is neither its warped sample nor the one before it
C30_Witness ==
    /\ pc = "warped"
    /\ warpOut.error = "none"
    /\ \E i \in 3..Len(warpOut.f0_warped) :
          /\ warpOut.f0_warped[i] > 0
          /\ RunStart(warpOut.f0_warped, i) \in 2..(i - 1)
          /\ warpOut.f0_smooth[i] # warpOut.f0_warped[i]
          /\ warpOut.f0_smooth[i] # warpOut.f0_warped[i - 1]

\* C28: for a karaoke duration shorter than one grid frame, where
\* int(duration_k * 50) = 0, warp_pitch_to_karaoke raises nothing and
\* returns three empty arrays.
C28_ShortDurationReturnsEmpty ==
    (pc = "warped" /\ NumFrames(warpIn.duration_k) = 0) =>
        /\ warpOut.error = "none"
        /\ warpOut.tk_grid = <<>>
        /\ warpOut.f0_smooth = <<>>
        /\ warpOut.conf_warped = <<>>


\* the matched pairs lie on the line tref = k * tk through the origin, for
\* the k > 0 given by their last pair
OnLine(tk, tref) ==
    /\ tk[Len(tk)] > 0
    /\ tref[Len(tref)] > 0
    /\ \A j \in 1..Len(tk) : tref[j] * tk[Len(tk)] = tref[Len(tref)] * tk[j]

LineSlope(tk, tref) == Rat(tref[Len(tref)], tk[Len(tk)])

\* C14: for matched pairs on a line tref = k * tk with k > 0, every segment
\* fit_piecewise_linear returns has a slope within 0.01 of k and an
\* intercept within 0.1 s of 0, for n < window and for n >= window.
C14_LineSlopeRecovered ==
    (pc = "fitted" /\ OnLine(fitIn.tk, fitIn.tref)) =>
        \A i \in 1..Len(fitOut) :
            /\ RLt(RAbs(RSub(fitOut[i].a, LineSlope(fitIn.tk, fitIn.tref))),
                   <<1, 100>>)
            /\ RLt(RAbs(fitOut[i].b), <<REF_FPS, 10>>)

\* pairs on a line of slope 2 whose windows were fitted and merged
C14_Witness ==
    /\ pc = "fitted"
    /\ OnLine(fitIn.tk, fitIn.tref)
    /\ LineSlope(fitIn.tk, fitIn.tref) = <<2, 1>>
    /\ fitLocals.branch = "windowed"
    /\ Len(fitLocals.segments) > Len(fitOut)


-----------------------------------------------------------------------------
(* Inputs of the fit specification: matched pairs whose karaoke times and  *)
(* reference times are non-decreasing, repeated values included, as the    *)
(* pairs of a warping path are: the karaoke times either repeat or        *)
(* advance unevenly.  The reference times advance by a few                 *)
(* ticks, or by larger and uneven steps as across a cut in the             *)
(* arrangement.                                                            *)

MaxFitPairs == 5

MaxFitWindow == 4

SmallSteps == {0, 1}

LargeSteps == {5, 40}

InitFit ==
    /\ pc = "input"
    /\ KeyIdle
    /\ OnsetIdle
    /\ PoolIdle
    /\ RefineIdle
    /\ AlignIdle
    /\ BinsIdle
    /\ ScoreIdle
    /\ fitOut = None
    /\ fitLocals = None
    /\ warpIn = None
    /\ warpOut = None
    /\ \E n \in 2..MaxFitPairs, tk0 \in {1}, window \in 2..MaxFitWindow :
         \E dk \in [1..(n - 1) -> {0, 1}] \cup [1..(n - 1) -> {1, 2}],
            dref \in [1..(n - 1) -> SmallSteps] \cup [1..(n - 1) -> LargeSteps] :
           fitIn = [tk     |-> Cumulative(tk0, dk),
                    tref   |-> Cumulative(0, dref),
                    window |-> window]

SpecFit == InitFit /\ [][Fit]_vars

\* the segments are in non-decreasing order of tk_start
SortedByStart(segments) ==
    \A i \in 1..(Len(segments) - 1) :
        segments[i].tk_start <= segments[i + 1].tk_start

\* C15: for non-decreasing karaoke times, the segments of
\* fit_piecewise_linear are sorted by tk_start, non-decreasing, both before
\* the merge pass and in the returned list.
C15_SegmentsSortedByStart ==
    pc = "fitted" =>
        /\ SortedByStart(fitLocals.segments)
        /\ SortedByStart(fitOut)

\* karaoke times with a repeated value, several windows, and a merge pass
\* that merged some segments and kept others
C15_Witness ==
    /\ pc = "fitted"
    /\ \E j \in 1..(Len(fitIn.tk) - 1) : fitIn.tk[j] = fitIn.tk[j + 1]
    /\ fitLocals.branch = "windowed"
    /\ Len(fitOut) >= 2
    /\ Len(fitLocals.segments) > Len(fitOut)
    /\ fitOut[1].tk_start < fitOut[2].tk_start


\* the least-squares line through all the matched pairs: the slope and
\* intercept at which both partial derivatives of the squared error vanish
LeastSquares(seg, tk, tref) ==
    LET m == Len(tk)
        residual == [i \in 1..m |->
                       RSub(RInt(tref[i]), map_time(seg, tk[i]))]
    IN  /\ RSumSeq(residual) = <<0, 1>>
        /\ RSumSeq([i \in 1..m |-> RMul(residual[i], RInt(tk[i]))]) = <<0, 1>>

\* C18: with 2 <= n < window matched pairs, fit_piecewise_linear returns
\* exactly one segment, from tk[0] to tk[n-1], fitted over the whole
\* sequence, and neither windows the pairs nor runs the merge pass.
C18_ShortSequenceSingleSegment ==
    (pc = "fitted" /\ Len(fitIn.tk) >= 2 /\ Len(fitIn.tk) < fitIn.window) =>
        /\ Len(fitOut) = 1
        /\ fitOut[1].tk_start = fitIn.tk[1]
        /\ fitOut[1].tk_end = fitIn.tk[Len(fitIn.tk)]
        /\ LeastSquares(fitOut[1], fitIn.tk, fitIn.tref)
        /\ fitLocals.branch = "single"
        /\ fitOut = fitLocals.segments

\* three pairs, not on one line, under a window of four
C18_Witness ==
    /\ pc = "fitted"
    /\ Len(fitIn.tk) = 3
    /\ fitIn.window = 4
    /\ fitLocals.branch = "single"
    /\ fitOut[1].quality # <<1, 1>>
    /\ fitOut[1].tk_start < fitOut[1].tk_end


\* the 0-based window starts i = 0, step, 2 * step, ... with i + window <= n
StartSet(n, window, step) ==
    {i \in 0..(n - window) : i % step = 0}

\* one pre-merge segment per window start, in order, the segment of start i
\* from tk[i] to tk[i + window - 1] (0-based)
OneSegmentPerStart(segments, tk, window, step) ==
    /\ Len(segments) = Cardinality(StartSet(Len(tk), window, step))
    /\ \A k \in 1..Len(segments) :
          /\ (k - 1) * step \in StartSet(Len(tk), window, step)
          /\ segments[k].tk_start = tk[(k - 1) * step + 1]
          /\ segments[k].tk_end = tk[(k - 1) * step + window]

\* C19 as stated: with n >= window there is, before the merge pass, one
\* segment per window start, from tk[i] to tk[i+window-1], and the step
\* between the starts is half the window, so that consecutive segments
\* share 50% of the window's pairs.
C19_WindowsOverlapByHalf ==
    (pc = "fitted" /\ Len(fitIn.tk) >= fitIn.window) =>
        /\ fitLocals.branch = "windowed"
        /\ OneSegmentPerStart(fitLocals.segments, fitIn.tk, fitIn.window,
                              fitLocals.step)
        /\ 2 * fitLocals.step = fitIn.window
        /\ 2 * (fitIn.window - fitLocals.step) = fitIn.window

\* C19, amended: with n >= window >= 2 there is, before the merge pass, one
\* segment per window start i = 0, step, 2 * step, ... with i + window <= n,
\* from tk[i] to tk[i+window-1], where step is window / 2 rounded down;
\* consecutive segments share window - step pairs, which is 50% of the
\* window when the window is even and more when it is odd.
C19_WindowsStepByFlooredHalf ==
    (pc = "fitted" /\ Len(fitIn.tk) >= fitIn.window) =>
        /\ fitLocals.branch = "windowed"
        /\ OneSegmentPerStart(fitLocals.segments, fitIn.tk, fitIn.window,
                              fitIn.window \div 2)
        /\ fitLocals.step = fitIn.window \div 2
        /\ fitIn.window % 2 = 0 =>
              2 * (fitIn.window - fitLocals.step) = fitIn.window
        /\ fitIn.window % 2 = 1 =>
              2 * (fitIn.window - fitLocals.step) > fitIn.window

\* an odd window of three pairs over four pairs: two windows one pair apart
C19_Witness ==
    /\ pc = "fitted"
    /\ fitIn.window = 3
    /\ Len(fitIn.tk) = 4
    /\ fitLocals.branch = "windowed"
    /\ Len(fitLocals.segments) = 2
    /\ fitLocals.segments[2].tk_start = fitIn.tk[2]


\* the current segment is close to the kept one: slopes less than 0.01
\* apart, intercepts less than 0.1 s apart, both qualities above 0.8
CloseSlopes(cur, kept) ==
    RLt(RMul(RInt(100), RAbs(RSub(cur.a, kept.a))), RInt(1))

CloseIntercepts(cur, kept) ==
    RLt(RMul(RInt(10), RAbs(RSub(cur.b, kept.b))), RInt(REF_FPS))

GoodQualities(cur, kept) ==
    RLt(<<4, 5>>, cur.quality) /\ RLt(<<4, 5>>, kept.quality)

\* the kept list after the first k segments were scanned, as the merge
\* pass is stated
RECURSIVE KeptAfter(_, _)
KeptAfter(segments, k) ==
    IF k = 0 THEN <<>>
    ELSE LET before == KeptAfter(segments, k - 1)
             cur    == segments[k]
         IN  IF before = <<>> THEN <<cur>>
             ELSE LET kept == before[Len(before)] IN
                  IF /\ CloseSlopes(cur, kept)
                     /\ CloseIntercepts(cur, kept)
                     /\ GoodQualities(cur, kept)
                  THEN [before EXCEPT ![Len(before)] =
                          [tk_start |-> kept.tk_start,
                           tk_end   |-> cur.tk_end,
                           a        |-> RMul(<<1, 2>>, RAdd(kept.a, cur.a)),
                           b        |-> RMul(<<1, 2>>, RAdd(kept.b, cur.b)),
                           quality  |-> IF RLe(kept.quality, cur.quality)
                                        THEN kept.quality ELSE cur.quality]]
                  ELSE Append(before, cur)

\* C20: the merge pass scans the segments in order and merges the current
\* segment into the last kept one exactly when their slopes differ by less
\* than 0.01, their intercepts by less than 0.1 and both qualities exceed
\* 0.8; the merged segment runs from the kept segment's tk_start to the
\* current segment's tk_end, with the mean slope, the mean intercept and
\* the smaller quality; otherwise the current segment is appended as it is.
C20_MergePassAsStated ==
    (pc = "fitted" /\ fitLocals.branch = "windowed") =>
        /\ fitLocals.merged = KeptAfter(fitLocals.segments,
                                        Len(fitLocals.segments))
        /\ fitOut = fitLocals.merged

\* two windows of close slopes and good qualities that the merge pass
\* keeps apart for their intercepts alone
C20_Witness ==
    /\ pc = "fitted"
    /\ fitLocals.branch = "windowed"
    /\ Len(fitLocals.segments) = 2
    /\ Len(fitOut) = 2
    /\ CloseSlopes(fitLocals.segments[2], fitOut[1])
    /\ GoodQualities(fitLocals.segments[2], fitOut[1])
    /\ ~CloseIntercepts(fitLocals.segments[2], fitOut[1])


\* C21: in the list fit_piecewise_linear returns, each segment starts at or
\* before the end of the segment before it, so that the segments leave no
\* gap between them.
C21_SegmentsLeaveNoGap ==
    pc = "fitted" =>
        \A i \in 1..(Len(fitOut) - 1) :
            fitOut[i + 1].tk_start <= fitOut[i].tk_end

\* two returned segments of which the second starts after the first
\* starts and before the first ends
C21_Witness ==
    /\ pc = "fitted"
    /\ Len(fitOut) = 2
    /\ fitOut[1].tk_start < fitOut[2].tk_start
    /\ fitOut[2].tk_start < fitOut[1].tk_end
    /\ fitOut[1].tk_end < fitOut[2].tk_end


\* C26: in the windowed branch every matched karaoke time lies inside a
\* returned segment; in particular the first segment starts at tk[0] and
\* the last segment ends at tk[n-1].
C26_WindowsCoverAllPairs ==
    (pc = "fitted" /\ Len(fitIn.tk) >= fitIn.window) =>
        /\ \A j \in 1..Len(fitIn.tk) :
              \E k \in 1..Len(fitOut) :
                  /\ fitOut[k].tk_start <= fitIn.tk[j]
                  /\ fitIn.tk[j] <= fitOut[k].tk_end
        /\ fitOut[1].tk_start = fitIn.tk[1]
        /\ fitOut[Len(fitOut)].tk_end = fitIn.tk[Len(fitIn.tk)]

\* the merge condition holds between the segments k and k + 1 of the list
Mergeable(segments, k) ==
    /\ CloseSlopes(segments[k + 1], segments[k])
    /\ CloseIntercepts(segments[k + 1], segments[k])
    /\ GoodQualities(segments[k + 1], segments[k])

\* C29: the merge pass is maximal: no two adjacent segments of its output
\* satisfy the merge condition, and the merge pass applied to its output
\* returns it unchanged.
C29_MergePassIsMaximal ==
    (pc = "fitted" /\ fitLocals.branch = "windowed") =>
        /\ \A k \in 1..(Len(fitOut) - 1) : ~Mergeable(fitOut, k)
        /\ MergePass(fitOut, <<>>, 1) = fitOut

-----------------------------------------------------------------------------
(* Inputs of the note-bin specification *)

MaxFrames == 5

\* one frame of a pitch contour: silent, pitched but at the confidence
\* threshold, or voiced at one of two pitches
FrameKinds ==
    { [f0 |-> 0,   conf |-> 90],
      [f0 |-> 100, conf |-> PITCH_CONF_THRESHOLD],
      [f0 |-> 100, conf |-> 90],
      [f0 |-> 200, conf |-> 90] }

InitBins ==
    /\ pc = "input"
    /\ KeyIdle
    /\ OnsetIdle
    /\ PoolIdle
    /\ RefineIdle
    /\ AlignIdle
    /\ WarpIdle
    /\ ScoreIdle
    /\ note_bins = None
    /\ \E n \in 1..MaxFrames :
         \E gaps \in [1..(n - 1) -> {5, 10}], kinds \in [1..n -> FrameKinds] :
           binsIn = [times      |-> Cumulative(0, gaps),
                     f0         |-> [i \in 1..n |-> kinds[i].f0],
                     confidence |-> [i \in 1..n |-> kinds[i].conf]]

CreateNoteBins ==
    /\ pc = "input"
    /\ note_bins' = create_note_bins(binsIn.times, binsIn.f0, binsIn.confidence,
                                     NOTE_TOLERANCE_CENTS)
    /\ pc' = "binned"
    /\ UNCHANGED <<keyVars, onsetVars, poolVars, alignVars, warpVars, scoreVars, refineVars, binsIn>>

NextBins == CreateNoteBins

SpecBins == InitBins /\ [][NextBins]_vars

\* C3: every emitted note bin lasts at least MIN_NOTE_DURATION and has a
\* positive f0, and the bins are in time order without overlap: each bin
\* ends strictly before the next one starts.
C3_NoteBinsValid ==
    pc = "binned" =>
        /\ \A k \in 1..Len(note_bins) :
              /\ note_bins[k].end - note_bins[k].start >= MIN_NOTE_DURATION
              /\ RLt(RInt(0), note_bins[k].f0)
        /\ \A k \in 1..(Len(note_bins) - 1) :
              /\ note_bins[k].start <= note_bins[k + 1].start
              /\ note_bins[k].end < note_bins[k + 1].start

\* two bins, the first one of an even number of frames of unequal pitch
C3_Witness ==
    /\ pc = "binned"
    /\ Len(note_bins) = 2
    /\ note_bins[1].f0 = <<150, 1>>


\* frame i is voiced: f0 > 0 and confidence > 0.3
IsVoicedFrame(i) ==
    binsIn.f0[i] > 0 /\ 100 * binsIn.confidence[i] > 30 * 100

\* the maximal runs of voiced frames, as pairs (first frame, last frame)
MaximalRuns ==
    {run \in (1..Len(binsIn.f0)) \X (1..Len(binsIn.f0)) :
        /\ run[1] <= run[2]
        /\ \A i \in run[1]..run[2] : IsVoicedFrame(i)
        /\ run[1] = 1 \/ ~IsVoicedFrame(run[1] - 1)
        /\ run[2] = Len(binsIn.f0) \/ ~IsVoicedFrame(run[2] + 1)}

\* the runs that span at least 0.2 s
LongRuns ==
    {run \in MaximalRuns :
        5 * (binsIn.times[run[2]] - binsIn.times[run[1]]) >= REF_FPS}

\* C25: create_note_bins emits exactly one bin for every maximal run of
\* voiced frames that spans at least 0.2 s, a run that reaches the last
\* frame included, and no bin for any other run; the bin starts at the
\* run's first time, ends at its last time and has the median f0 of the
\* run.
C25_OneBinPerLongRun ==
    pc = "binned" =>
        /\ Len(note_bins) = Cardinality(LongRuns)
        /\ {<<note_bins[k].start, note_bins[k].end, note_bins[k].f0>> :
                k \in 1..Len(note_bins)}
             = {<<binsIn.times[run[1]], binsIn.times[run[2]],
                  Median([i \in 1..(run[2] - run[1] + 1) |->
                            binsIn.f0[run[1] + i - 1]])>> : run \in LongRuns}

\* a short run that gives no bin, and a run of exactly 0.2 s that reaches
\* the last frame and gives one
C25_Witness ==
    /\ pc = "binned"
    /\ Len(note_bins) = 1
    /\ Cardinality(MaximalRuns) = 2
    /\ note_bins[1].end = binsIn.times[Len(binsIn.times)]
    /\ note_bins[1].end - note_bins[1].start = MIN_NOTE_DURATION

-----------------------------------------------------------------------------
(* Inputs of the phrase-scoring specifications *)

MaxRefLen == 4

MaxSingerLen == 3

MaxExactLen == 6

\* the phrase windows (start, end) tried
PhraseWindows == {<<0, 10>>, <<1, 3>>}

\* sample times 0, 1, 2, ... shifted by first
GridTimes(first, n) == [i \in 1..n |-> first + i - 1]

ScorePhrase ==
    /\ pc = "input"
    /\ phraseLocals' = PhraseLocals(phraseIn.ref_times, phraseIn.ref_pitch,
                                    phraseIn.singer_times, phraseIn.singer_pitch,
                                    phraseIn.phrase_start, phraseIn.phrase_end)
    /\ metrics' = calculate_phrase_metrics(phraseIn.ref_times, phraseIn.ref_pitch,
                                           phraseIn.singer_times, phraseIn.singer_pitch,
                                           phraseIn.phrase_start, phraseIn.phrase_end)
    /\ pc' = "scored"
    /\ UNCHANGED <<keyVars, onsetVars, poolVars, alignVars, warpVars, binsVars, refineVars, phraseIn>>

\* a reference contour and an independent singer contour, the singer's
\* samples one tick later than the reference's
InitScore ==
    /\ pc = "input"
    /\ KeyIdle
    /\ OnsetIdle
    /\ PoolIdle
    /\ RefineIdle
    /\ AlignIdle
    /\ WarpIdle
    /\ BinsIdle
    /\ phraseLocals = None
    /\ metrics = None
    /\ \E n \in 0..MaxRefLen, m \in 0..MaxSingerLen, w \in PhraseWindows :
         \E rp \in [1..n -> {0, 100, 106}], sp \in [1..m -> {0, 100, 102}] :
           phraseIn = [ref_times |-> GridTimes(0, n), ref_pitch |-> rp,
                       singer_times |-> GridTimes(1, m), singer_pitch |-> sp,
                       phrase_start |-> w[1], phrase_end |-> w[2]]

NextScore == ScorePhrase

SpecScore == InitScore /\ [][NextScore]_vars

\* a singer contour equal to the reference contour over the same timestamps
InitExact ==
    /\ pc = "input"
    /\ KeyIdle
    /\ OnsetIdle
    /\ PoolIdle
    /\ RefineIdle
    /\ AlignIdle
    /\ WarpIdle
    /\ BinsIdle
    /\ phraseLocals = None
    /\ metrics = None
    /\ \E n \in 0..MaxExactLen, w \in PhraseWindows :
         \E rp \in [1..n -> {0, 100, 200}] :
           phraseIn = [ref_times |-> GridTimes(0, n), ref_pitch |-> rp,
                       singer_times |-> GridTimes(0, n), singer_pitch |-> rp,
                       phrase_start |-> w[1], phrase_end |-> w[2]]

NextExact == ScorePhrase

SpecExact == InitExact /\ [][NextExact]_vars

\* the voiced samples of a series inside the phrase window, as the
\* positions (1-based) they have in the series
VoicedInPhrase(times, pitch, start, end) ==
    {i \in 1..Len(times) : times[i] >= start /\ times[i] <= end /\ pitch[i] > 0}

\* the k-th smallest element of a set of integers, k = 1 the smallest
KthOf(S, k) == CHOOSE x \in S : Cardinality({y \in S : y < x}) = k - 1

RefVoicedInPhrase ==
    VoicedInPhrase(phraseIn.ref_times, phraseIn.ref_pitch,
                   phraseIn.phrase_start, phraseIn.phrase_end)

SingerVoicedInPhrase ==
    VoicedInPhrase(phraseIn.singer_times, phraseIn.singer_pitch,
                   phraseIn.phrase_start, phraseIn.phrase_end)

\* C4: a singer contour equal to the reference contour over the same
\* timestamps, with at least 3 voiced samples in the phrase, scores
\* accuracy 1, median error 0 and timing offset 0.
C4_ExactMatchIsPerfect ==
    (/\ pc = "scored"
     /\ phraseIn.singer_pitch = phraseIn.ref_pitch
     /\ phraseIn.singer_times = phraseIn.ref_times
     /\ Cardinality(RefVoicedInPhrase) >= 3)
    => /\ metrics.accuracy = <<1, 1>>
       /\ metrics.median_cents_error = <<0, 1>>
       /\ metrics.timing_offset = <<0, 1>>

\* C5: when the voiced reference samples or the voiced singer samples of
\* the phrase are fewer than 3, the result is exactly accuracy 0, median
\* error 0, on-beat 0, timing offset 0 and dtw_cost 1.0.
C5_TooFewVoicedIsSentinel ==
    (/\ pc = "scored"
     /\ \/ Cardinality(RefVoicedInPhrase) < 3
        \/ Cardinality(SingerVoicedInPhrase) < 3)
    => metrics = [accuracy |-> <<0, 1>>, median_cents_error |-> <<0, 1>>,
                  on_beat_pct |-> <<0, 1>>, timing_offset |-> <<0, 1>>,
                  dtw_cost |-> 100]

\* a singer who has samples in the phrase, all of them unvoiced, against a
\* reference with 3 voiced samples there
C5_Witness ==
    /\ pc = "scored"
    /\ Cardinality(RefVoicedInPhrase) >= 3
    /\ Len(phraseLocals.singer_f0) >= 2
    /\ SingerVoicedInPhrase = {}
    /\ metrics.dtw_cost = 100

\* C7: the cents error and the timing difference of every pair (i, j) of
\* the DTW path are those of the i-th voiced reference sample and the j-th
\* voiced singer sample of the phrase, and no pair is skipped.
C7_PairsUseAlignedVoicedSamples ==
    (pc = "scored" /\ phraseLocals.returned = "scored") =>
        LET n == Len(phraseLocals.ref_idx)
            ri(p) == KthOf(RefVoicedInPhrase, phraseLocals.ref_idx[p] + 1)
            si(p) == KthOf(SingerVoicedInPhrase, phraseLocals.singer_idx[p] + 1)
        IN  /\ Len(phraseLocals.cents_errors) = n
            /\ Len(phraseLocals.timing_offsets) = n
            /\ \A p \in 1..n :
                 /\ phraseLocals.cents_errors[p]
                      = CentsError(phraseIn.singer_pitch[si(p)],
                                   phraseIn.ref_pitch[ri(p)])
                 /\ phraseLocals.timing_offsets[p]
                      = phraseIn.singer_times[si(p)] - phraseIn.ref_times[ri(p)]

\* C8: on every return path accuracy and on_beat_pct lie in [0, 1],
\* dtw_cost is not negative, and on_beat_pct equals accuracy.
C8_MetricsInRange ==
    pc = "scored" =>
        /\ RLe(<<0, 1>>, metrics.accuracy) /\ RLe(metrics.accuracy, <<1, 1>>)
        /\ RLe(<<0, 1>>, metrics.on_beat_pct) /\ RLe(metrics.on_beat_pct, <<1, 1>>)
        /\ metrics.dtw_cost >= 0
        /\ metrics.on_beat_pct = metrics.accuracy

\* a phrase scored by DTW with some pairs inside and some outside tolerance
C8_Witness ==
    /\ pc = "scored"
    /\ phraseLocals.returned = "scored"
    /\ RLt(<<0, 1>>, metrics.accuracy)
    /\ RLt(metrics.accuracy, <<1, 1>>)
    /\ metrics.dtw_cost > 0

-----------------------------------------------------------------------------
(* Inputs of the round-trip specification: a warped contour on the karaoke *)
(* grid, voiced at most at MaxSlots frames one SlotSpacing apart, and the  *)
(* onsets found in the karaoke audio.                                      *)

MaxSlots == 5

SlotSpacing == REF_FPS + 1

SongDuration == SlotSpacing * MaxSlots

\* the onset times tried, in increasing order
OnsetCandidates == <<0, SlotSpacing - 10, 2 * SlotSpacing>>

\* the contour whose frame at slot k has pitch slots[k] and whose other
\* frames are unvoiced, on the grid np.arange(n_frames) / REF_FPS
ContourOf(slots) ==
    LET f0 == [i \in 1..SongDuration |->
                 IF (i - 1) % SlotSpacing = 0
                 THEN slots[((i - 1) \div SlotSpacing) + 1] ELSE 0]
    IN  [times_k     |-> [i \in 1..SongDuration |-> i - 1],
         f0_warped   |-> f0,
         conf_warped |-> [i \in 1..SongDuration |-> IF f0[i] > 0 THEN 90 ELSE 0]]

\* a singer a little sharp: 34 cents above 100 Hz, 51 cents above 200 Hz
Sharp(f0) == IF f0 = 100 THEN 102 ELSE IF f0 = 200 THEN 206 ELSE f0

\* what a singer of the given voice sings for the reference pitch f0
Voice(voice, f0) ==
    IF voice = "exact" THEN f0 ELSE IF voice = "sharp" THEN Sharp(f0) ELSE 0

\* the performance that sings the samples of ref_pitch_data in a voice
PerformanceOf(ref_pitch_data, voice) ==
    [timestamps |-> Tuple([k \in 1..Len(ref_pitch_data) |-> ref_pitch_data[k].t]),
     pitch      |-> Tuple([k \in 1..Len(ref_pitch_data) |->
                             Voice(voice, ref_pitch_data[k].f0)])]

InitRoundTrip ==
    /\ pc = "input"
    /\ KeyIdle
    /\ OnsetIdle
    /\ PoolIdle
    /\ AlignIdle
    /\ WarpIdle
    /\ BinsIdle
    /\ ScoreIdle
    /\ reference = None
    /\ performance = None
    /\ refined = None
    /\ \E slots \in [1..MaxSlots -> {0, 100, 200}],
          kept \in SUBSET (1..Len(OnsetCandidates)) :
         LET contour == ContourOf(slots)
             idx     == SelectIdx(Len(OnsetCandidates), kept, 1)
         IN  songIn = [times_k     |-> contour.times_k,
                       f0_warped   |-> contour.f0_warped,
                       conf_warped |-> contour.conf_warped,
                       onsets      |-> Tuple([k \in 1..Len(idx) |->
                                                OnsetCandidates[idx[k]]]),
                       duration_k  |-> SongDuration,
                       \* the karaoke track is the reference track itself
                       alignment_segments |->
                           <<AlignmentSegment(0, SongDuration, <<1, 1>>,
                                              <<0, 1>>, <<1, 1>>)>>,
                       tref_aligned |-> <<0, SongDuration>>]

BuildReference ==
    /\ pc = "input"
    /\ reference' = build_reference_json(songIn.times_k, songIn.f0_warped,
                                         songIn.conf_warped, songIn.onsets,
                                         songIn.duration_k,
                                         songIn.alignment_segments,
                                         songIn.tref_aligned)
    /\ pc' = "built"
    /\ UNCHANGED <<keyVars, onsetVars, poolVars, alignVars, warpVars, binsVars, scoreVars,
                   songIn, performance, refined>>

\* the performance is the reference's own samples, exact or sharp
Sing ==
    /\ pc = "built"
    /\ \E voice \in {"exact", "sharp"} :
          performance' = PerformanceOf(reference.f0_ref_on_k, voice)
    /\ pc' = "sung"
    /\ UNCHANGED <<keyVars, onsetVars, poolVars, alignVars, warpVars, binsVars, scoreVars, songIn,
                   reference, refined>>

Refine ==
    /\ pc = "sung"
    /\ refined' = refine_results(reference, performance)
    /\ pc' = "refined"
    /\ UNCHANGED <<keyVars, onsetVars, poolVars, alignVars, warpVars, binsVars, scoreVars, songIn,
                   reference, performance>>

NextRoundTrip == BuildReference \/ Sing \/ Refine

SpecRoundTrip == InitRoundTrip /\ [][NextRoundTrip]_vars

\* the performance replays the reference's f0_ref_on_k samples
IsReplay ==
    performance = PerformanceOf(reference.f0_ref_on_k, "exact")

\* the number of f0_ref_on_k samples inside the k-th phrase of the reference
SamplesInPhrase(k) ==
    Cardinality({i \in 1..Len(reference.f0_ref_on_k) :
                    /\ reference.f0_ref_on_k[i].t >= reference.phrases_k[k].start
                    /\ reference.f0_ref_on_k[i].t <= reference.phrases_k[k].end})

\* C6 as stated: scoring a replay of the built reference's own f0_ref_on_k
\* samples gives accuracy 1 for every phrase of phrases_k.
C6_ReplayIsPerfectInEveryPhrase ==
    (pc = "refined" /\ IsReplay) =>
        /\ Len(refined.phrases) = Len(reference.phrases_k)
        /\ \A k \in 1..Len(refined.phrases) :
              refined.phrases[k].accuracy = <<1, 1>>

\* C6, amended: scoring a replay of the built reference's own f0_ref_on_k
\* samples gives accuracy 1 and median error 0 for every phrase that holds
\* at least 3 of the samples, and the degenerate result (accuracy 0,
\* dtw_cost 1.0) for every other phrase.
C6_ReplayIsPerfectWhereThreeSamples ==
    (pc = "refined" /\ IsReplay) =>
        /\ Len(refined.phrases) = Len(reference.phrases_k)
        /\ \A k \in 1..Len(refined.phrases) :
              IF SamplesInPhrase(k) >= 3
              THEN /\ refined.phrases[k].accuracy = <<1, 1>>
                   /\ refined.phrases[k].median_cents_error = <<0, 1>>
              ELSE /\ refined.phrases[k].accuracy = <<0, 1>>
                   /\ refined.phrases[k].dtw_cost = 100

\* a replay over two phrases, the first with 3 samples and the second with
\* fewer
C6_Witness ==
    /\ pc = "refined"
    /\ IsReplay
    /\ Len(refined.phrases) = 2
    /\ SamplesInPhrase(1) >= 3
    /\ refined.phrases[1].accuracy = <<1, 1>>
    /\ SamplesInPhrase(2) \in 1..2
    /\ refined.phrases[2].accuracy = <<0, 1>>

-----------------------------------------------------------------------------
(* Inputs of the aggregation specification: a reference document with      *)
(* MaxSamples voiced samples (or none) and up to MaxPhrases phrases, or     *)
(* without the phrases_k key, and a performance over the same timestamps.  *)

MaxSamples == 6

MaxPhrases == 3

\* the phrase windows (start, end) tried
RefineWindows ==
    {<<0, 2>>, <<3, MaxSamples - 1>>, <<MaxSamples - 2, MaxSamples - 1>>}

PhraseLists ==
    UNION {[1..n -> RefineWindows] : n \in 0..MaxPhrases}

InitRefine ==
    /\ pc = "sung"
    /\ KeyIdle
    /\ OnsetIdle
    /\ PoolIdle
    /\ AlignIdle
    /\ WarpIdle
    /\ BinsIdle
    /\ ScoreIdle
    /\ songIn = None
    /\ refined = None
    /\ \E n \in {0, MaxSamples} :
         \E rp \in [1..n -> {100, 200}] :
           LET ref_pitch_data ==
                   [k \in 1..n |-> [t |-> k - 1, f0 |-> rp[k], conf |-> 90]]
           IN  /\ \/ \E windows \in PhraseLists :
                       reference =
                         [phrases_k   |-> [k \in 1..Len(windows) |->
                                             [id    |-> k,
                                              start |-> windows[k][1],
                                              end   |-> windows[k][2]]],
                          f0_ref_on_k |-> ref_pitch_data]
                  \/ reference = [f0_ref_on_k |-> ref_pitch_data]
               /\ \E voice \in {"exact", "sharp", "silent"} :
                      performance = PerformanceOf(ref_pitch_data, voice)

NextRefine == Refine

SpecRefine == InitRefine /\ [][NextRefine]_vars

\* the value at 0-based rank r of the sorted values of a sequence of
\* rationals
RankedAt(vals, r) ==
    LET below(x)  == Cardinality({k \in 1..Len(vals) : RLt(vals[k], x)})
        atMost(x) == Cardinality({k \in 1..Len(vals) : RLe(vals[k], x)})
    IN  vals[CHOOSE k \in 1..Len(vals) :
                 below(vals[k]) <= r /\ r < atMost(vals[k])]

\* the product of the denominators of a sequence of rationals
RECURSIVE DenominatorProduct(_)
DenominatorProduct(vals) ==
    IF vals = <<>> THEN 1 ELSE Head(vals)[2] * DenominatorProduct(Tail(vals))

\* the sum of the fractions of a sequence of rationals over the common
\* denominator den
RECURSIVE NumeratorSum(_, _)
NumeratorSum(vals, den) ==
    IF vals = <<>> THEN 0
    ELSE (Head(vals)[1] * (den \div Head(vals)[2])) + NumeratorSum(Tail(vals), den)

\* C9: the result has one entry per phrase of the reference, degenerate
\* ones included; overall accuracy is the arithmetic mean of the entries'
\* accuracy and overall median_cents_error is the median of the entries'
\* median errors.
C9_OverallIsMeanAndMedianOfAllPhrases ==
    (pc = "refined" /\ Len(GetOrEmpty(reference, "phrases_k")) > 0) =>
        LET src  == reference.phrases_k
            ph   == refined.phrases
            n    == Len(ph)
            accs == [k \in 1..n |-> ph[k].accuracy]
            meds == [k \in 1..n |-> ph[k].median_cents_error]
            den  == DenominatorProduct(accs)
        IN  /\ n = Len(src)
            /\ \A k \in 1..n : /\ ph[k].id = src[k].id
                               /\ ph[k].start = src[k].start
                               /\ ph[k].end = src[k].end
            /\ refined.overall.accuracy[1] * n * den
                 = NumeratorSum(accs, den) * refined.overall.accuracy[2]
            /\ RMul(refined.overall.median_cents_error, RInt(2))
                 = RAdd(RankedAt(meds, (n - 1) \div 2), RankedAt(meds, n \div 2))

\* three phrases, a degenerate one among them, whose median errors differ
\* so that their median is not their mean
C9_Witness ==
    /\ pc = "refined"
    /\ Len(refined.phrases) = 3
    /\ \E k \in 1..3 : refined.phrases[k].dtw_cost = 100
    /\ \E k \in 1..3 : RLt(<<0, 1>>, refined.phrases[k].accuracy)
    /\ RLt(<<0, 1>>, refined.overall.median_cents_error)
    /\ RMul(refined.overall.median_cents_error, RInt(3))
         # RSumSeq([k \in 1..3 |-> refined.phrases[k].median_cents_error])

\* the phrase list refine_results reads is empty or missing
NoPhrases == GetOrEmpty(reference, "phrases_k") = <<>>

\* C10 as stated: with an empty or missing phrase list refine_results
\* reports a hard error.
C10_NoPhrasesIsHardError ==
    (pc = "refined" /\ NoPhrases) => refined.error # "none"

\* C10, amended: with an empty or missing phrase list refine_results
\* raises nothing and returns overall accuracy 0.0, overall
\* median_cents_error 0.0, no phrases and an empty phrase_accuracy chart.
C10_NoPhrasesIsZeroResult ==
    (pc = "refined" /\ NoPhrases) =>
        refined = [error   |-> "none",
                   overall |-> [accuracy |-> <<0, 1>>,
                                median_cents_error |-> <<0, 1>>],
                   phrases |-> <<>>,
                   charts  |-> [phrase_accuracy |-> <<>>]]

\* a voiced performance scored against a reference without the phrases_k key
C10_Witness ==
    /\ pc = "refined"
    /\ "phrases_k" \notin DOMAIN reference
    /\ Len(reference.f0_ref_on_k) > 0
    /\ \E i \in 1..Len(performance.pitch) : performance.pitch[i] > 0
    /\ refined.phrases = <<>>

-----------------------------------------------------------------------------
(* Inputs of the key-estimation specification: one of the two build        *)
(* pipelines, and an extraction that raises or that gives correlations     *)
(* with one peak among the major keys and one among the minor keys.        *)

Pipelines == {"preprocess_full", "analyze"}

PeakValues == {50, 90}

\* 12 correlations, all 0 except value at the 0-based shift
Peaked(shift, value) == [k \in 1..12 |-> IF k = shift + 1 THEN value ELSE 0]

InitKey ==
    /\ pc = "input"
    /\ OnsetIdle
    /\ PoolIdle
    /\ AlignIdle
    /\ WarpIdle
    /\ BinsIdle
    /\ ScoreIdle
    /\ RefineIdle
    /\ keyOut = None
    /\ \E pipeline \in Pipelines :
         \/ keyIn = [pipeline |-> pipeline, features |-> [raises |-> TRUE]]
         \/ \E ms \in 0..11, ns \in 0..11, mv \in PeakValues, nv \in PeakValues :
              keyIn = [pipeline |-> pipeline,
                       features |-> [raises |-> FALSE,
                                     major  |-> Peaked(ms, mv),
                                     minor  |-> Peaked(ns, nv)]]

\* the key step of the build of the chosen pipeline
DetectKey ==
    /\ pc = "input"
    /\ keyOut' = IF keyIn.pipeline = "preprocess_full"
                 THEN build_reference_key(keyIn.features)
                 ELSE extract_enhanced_features_key(keyIn.features)
    /\ pc' = "keyed"
    /\ UNCHANGED <<keyIn, onsetVars, poolVars, alignVars, warpVars, binsVars, scoreVars,
                   refineVars>>

NextKey == DetectKey

SpecKey == InitKey /\ [][NextKey]_vars

\* C11: when the key extraction raises, in either pipeline, the build still
\* produces its reference document, with the default key.
C11_KeyFailureIsNotFatal ==
    (pc = "keyed" /\ keyIn.features.raises) =>
        /\ keyOut.built
        /\ keyOut.error = "none"
        /\ keyOut.document.key = <<"C", "major">>

-----------------------------------------------------------------------------
(* Inputs of the interleaved-scoring specification: a reference of         *)
(* MaxSamples samples whose two halves have one pitch each, up to          *)
(* MaxPoolPhrases phrases, a performance over the same timestamps, and one *)
(* call of calculate_phrase_metrics per phrase, the calls taking their     *)
(* steps in any order.                                                     *)

MaxPoolPhrases == 2

RefSamples(ref_data) == GetOrEmpty(ref_data, "f0_ref_on_k")

RefTimes(ref_data) ==
    Tuple([k \in 1..Len(RefSamples(ref_data)) |-> RefSamples(ref_data)[k].t])

RefPitch(ref_data) ==
    Tuple([k \in 1..Len(RefSamples(ref_data)) |-> RefSamples(ref_data)[k].f0])

InitPool ==
    /\ pc = "pool"
    /\ KeyIdle
    /\ OnsetIdle
    /\ AlignIdle
    /\ WarpIdle
    /\ BinsIdle
    /\ ScoreIdle
    /\ songIn = None
    /\ refined = None
    /\ \E low \in {100, 200}, high \in {100, 200}, n \in 1..MaxPoolPhrases,
          voice \in {"exact", "sharp", "silent"} :
         \E windows \in [1..n -> RefineWindows] :
           LET ref_pitch_data ==
                   [k \in 1..MaxSamples |->
                      [t |-> k - 1, f0 |-> IF k <= 3 THEN low ELSE high,
                       conf |-> 90]]
               phrases == [k \in 1..n |-> [id    |-> k,
                                           start |-> windows[k][1],
                                           end   |-> windows[k][2]]]
           IN  /\ reference = [phrases_k |-> phrases,
                               f0_ref_on_k |-> ref_pitch_data]
               /\ performance = PerformanceOf(ref_pitch_data, voice)
               /\ tasks = [k \in 1..n |-> NewFrame(phrases[k])]

Extract(k) ==
    /\ FrameOf(tasks, k).at = "start"
    /\ tasks' = [tasks EXCEPT ![k] =
                   ExtractStep(FrameOf(tasks, k), RefTimes(reference),
                               RefPitch(reference), performance.timestamps,
                               performance.pitch)]
    /\ UNCHANGED <<pc, keyVars, onsetVars, alignVars, warpVars, binsVars, scoreVars,
                   refineVars>>

AlignPhrase(k) ==
    /\ FrameOf(tasks, k).at = "extracted"
    /\ tasks' = [tasks EXCEPT ![k] = AlignStep(FrameOf(tasks, k))]
    /\ UNCHANGED <<pc, keyVars, onsetVars, alignVars, warpVars, binsVars, scoreVars,
                   refineVars>>

Measure(k) ==
    /\ FrameOf(tasks, k).at = "aligned"
    /\ tasks' = [tasks EXCEPT ![k] = MeasureStep(FrameOf(tasks, k))]
    /\ UNCHANGED <<pc, keyVars, onsetVars, alignVars, warpVars, binsVars, scoreVars,
                   refineVars>>

NextPool ==
    \E k \in 1..Len(tasks) : Extract(k) \/ AlignPhrase(k) \/ Measure(k)

SpecPool == InitPool /\ [][NextPool]_vars

\* the metrics the sequential loop of refine_results gives phrase k
SequentialMetrics(k) ==
    calculate_phrase_metrics(RefTimes(reference), RefPitch(reference),
                             performance.timestamps, performance.pitch,
                             reference.phrases_k[k].start,
                             reference.phrases_k[k].end)

\* C13: whatever the order and interleaving of the calls, each finished
\* call has the metrics the sequential loop gives its phrase, and a step of
\* one call changes neither the reference, nor the performance, nor the
\* locals of another call.
C13_PhraseScoringIndependent ==
    /\ [](\A k \in 1..Len(tasks) :
             tasks[k].at = "done" => tasks[k].metrics = SequentialMetrics(k))
    /\ [][/\ reference' = reference
          /\ performance' = performance
          /\ \A j \in 1..Len(tasks), k \in 1..Len(tasks) :
                (tasks'[j] # tasks[j] /\ tasks'[k] # tasks[k]) => j = k]_vars

\* the second call has finished, with a measured score, while the first
\* call, for a phrase of another score, has not yet aligned
C13_Witness ==
    /\ pc = "pool"
    /\ Len(tasks) = 2
    /\ tasks[2].at = "done"
    /\ tasks[2].returned = "scored"
    /\ tasks[1].at = "extracted"
    /\ SequentialMetrics(1) # SequentialMetrics(2)

-----------------------------------------------------------------------------
(* Inputs of the phrase-detection specification: increasing onsets whose   *)
(* gaps lie around the minimum phrase length, and the duration of the      *)
(* audio, at or after the last onset.                                      *)

MaxOnsets == 3

OnsetGaps ==
    {MinPhraseLength - 1, MinPhraseLength, MinPhraseLength + 1, 3 * REF_FPS}

TailGaps == {0, MinPhraseLength, MinPhraseLength + 1}

InitPhrases ==
    /\ pc = "input"
    /\ KeyIdle
    /\ PoolIdle
    /\ AlignIdle
    /\ WarpIdle
    /\ BinsIdle
    /\ ScoreIdle
    /\ RefineIdle
    /\ phrasesOut = None
    /\ \/ \E duration \in TailGaps :
            onsetIn = [onsets |-> <<>>, duration |-> duration]
       \/ \E n \in 1..MaxOnsets, first \in {0, 7}, tail \in TailGaps :
            \E gaps \in [1..(n - 1) -> OnsetGaps] :
              LET onsets == Cumulative(first, gaps)
              IN  onsetIn = [onsets   |-> onsets,
                             duration |-> onsets[n] + tail]

DetectPhrases ==
    /\ pc = "input"
    /\ phrasesOut' = detect_phrases(onsetIn.onsets, onsetIn.duration)
    /\ pc' = "phrased"
    /\ UNCHANGED <<onsetIn, keyVars, poolVars, alignVars, warpVars, binsVars,
                   scoreVars, refineVars>>

SpecPhrases == InitPhrases /\ [][DetectPhrases]_vars

\* C16: for increasing onsets, the phrases of detect_phrases are ordered by
\* start, no two overlap (a phrase ends at or before the start of every
\* later one), and each is longer than the 2.0 s minimum phrase length.
C16_PhrasesOrderedDisjointLong ==
    pc = "phrased" =>
        /\ \A i \in 1..Len(phrasesOut), j \in 1..Len(phrasesOut) :
              i < j => /\ phrasesOut[i].start < phrasesOut[j].start
                       /\ phrasesOut[i].end <= phrasesOut[j].start
        /\ \A i \in 1..Len(phrasesOut) :
              phrasesOut[i].end - phrasesOut[i].start > MinPhraseLength

\* two phrases, the final one among them, from onsets of which one gap is
\* exactly the minimum length and gives no phrase
C16_Witness ==
    /\ pc = "phrased"
    /\ Len(phrasesOut) = 2
    /\ phrasesOut[2].end = onsetIn.duration
    /\ \E i \in 1..(Len(onsetIn.onsets) - 1) :
          onsetIn.onsets[i + 1] - onsetIn.onsets[i] = MinPhraseLength


\* C27: the ids of the phrases detect_phrases returns are pairwise distinct
\* and strictly increasing in list order, whatever the onsets: also when
\* consecutive onsets are 2.0 s or less apart and when a final phrase up to
\* the end of the audio is appended.
C27_PhraseIdsIncreasing ==
    pc = "phrased" =>
        \A i \in 1..Len(phrasesOut), j \in 1..Len(phrasesOut) :
            i < j => phrasesOut[i].id < phrasesOut[j].id

-----------------------------------------------------------------------------
(* Inputs of the segment-lookup specification: warp_pitch_to_karaoke       *)
(* called with a segment list of its caller's choice, in any order, with   *)
(* overlaps, gaps and segments at equal distances from a grid time.        *)

MaxSegments == 2

SegmentSpans == {<<0, 1>>, <<1, 1>>, <<1, 4>>, <<3, 4>>}

SegmentSlopes == {<<1, 1>>, <<1, 2>>}

SegmentChoices ==
    {AlignmentSegment(span[1], span[2], a, <<0, 1>>, <<1, 1>>) :
        span \in SegmentSpans, a \in SegmentSlopes}

InitLookup ==
    /\ pc = "fitted"
    /\ KeyIdle
    /\ OnsetIdle
    /\ PoolIdle
    /\ RefineIdle
    /\ AlignIdle
    /\ BinsIdle
    /\ ScoreIdle
    /\ fitIn = None
    /\ fitLocals = None
    /\ warpIn = None
    /\ warpOut = None
    /\ \E n \in 1..MaxSegments : fitOut \in [1..n -> SegmentChoices]

SpecLookup == InitLookup /\ [][Warp]_vars

\* the segments of the list that contain the grid time
Covering(alignment_segments, tk) ==
    {k \in 1..Len(alignment_segments) :
        /\ alignment_segments[k].tk_start <= tk
        /\ tk <= alignment_segments[k].tk_end}

\* C22: each grid time is mapped with the first segment, in list order,
\* whose closed interval contains it; when no segment contains it, with the
\* segment whose tk_start is nearest, the earliest of them on a tie; and
\* the mapped time is a * tk + b of that segment.
C22_FirstCoveringElseNearest ==
    (pc = "warped" /\ warpOut.error = "none") =>
        \A i \in 1..Len(warpOut.tk_grid) :
            LET tk     == warpOut.tk_grid[i]
                chosen == warpOut.seg_index[i]
                cov    == Covering(fitOut, tk)
            IN  /\ chosen \in 1..Len(fitOut)
                /\ cov # {} =>
                      chosen \in cov /\ \A k \in cov : chosen <= k
                /\ cov = {} =>
                      \A k \in 1..Len(fitOut) :
                          /\ Abs(tk - fitOut[chosen].tk_start)
                               <= Abs(tk - fitOut[k].tk_start)
                          /\ k < chosen =>
                                Abs(tk - fitOut[chosen].tk_start)
                                  < Abs(tk - fitOut[k].tk_start)
                /\ warpOut.tref_mapped[i] =
                      RAdd(RMul(fitOut[chosen].a, RInt(tk)), fitOut[chosen].b)

\* a grid time no segment contains, as far from the start of the first
\* segment as from the start of the second, mapped with the first
C22_Witness ==
    /\ pc = "warped"
    /\ warpOut.error = "none"
    /\ Len(fitOut) = 2
    /\ fitOut[1].a # fitOut[2].a
    /\ \E i \in 1..Len(warpOut.tk_grid) :
          /\ Covering(fitOut, warpOut.tk_grid[i]) = {}
          /\ Abs(warpOut.tk_grid[i] - fitOut[1].tk_start)
               = Abs(warpOut.tk_grid[i] - fitOut[2].tk_start)
          /\ fitOut[1].tk_start # fitOut[2].tk_start
          /\ warpOut.seg_index[i] = 1
=============================================================================
